---- MODULE Spec2Model ----
(***************************************************************************)
(* Unicorn Launchpad: the Solana program of                               *)
(* src/contracts/program/src/lib.rs as a state machine.                    *)
(*                                                                         *)
(* One project (the PDA of the authority "auth"), its treasury lamports,   *)
(* the credits of its mint, its milestone and proposal accounts and the    *)
(* cluster clock.  One action per instruction of process_instruction; an   *)
(* instruction that returns Err leaves every account as it was (the host   *)
(* discards the invocation), so a failed instruction takes no step and    *)
(* what it returns is read off the handler applied to the state.           *)
(*                                                                         *)
(* u64 is modelled with 17 bits (U64_MAX = 2^17 - 1, odd like 2^64 - 1):   *)
(* TLC's integers are 32 bits wide.  Every checked_* operator and every    *)
(* unchecked `+` of the source is modelled at that width.                  *)
(***************************************************************************)
EXTENDS Integers, Sequences, FiniteSets, TLC

VARIABLES
    project,      \* the Project record of the project account, or NoAccount
    lamports,     \* lamports of the project account (the treasury) and of each user
    tokens,       \* credits of the project's mint held by each user
    milestones,   \* milestone accounts: index -> Milestone (DOMAIN = the created ones)
    proposals,    \* proposal accounts: index -> Proposal (DOMAIN = the created ones)
    now,          \* Clock::get()?.unix_timestamp
    trades,       \* number of Contribute / Buy / Sell that changed an account (bounds the run)
    args,         \* SpecPure: the arguments a bonding curve helper is called with
    result,       \* SpecPure: the values the helper returned, Pending before the call
    history       \* the lamports each user paid in and was refunded, and each milestone released

vars == <<project, lamports, tokens, milestones, proposals, now, trades, args, result, history>>

(***************************************************************************)
(* Bounds of the model.                                                    *)
(***************************************************************************)
MaxTrades == 2
MaxMilestones == 1
MaxVotes == 2
MaxTime == 360
MaxDeals == 3
RentExempt == 50
StartLamports == 16000
OtherMintBalance == 5

(***************************************************************************)
(* Program constants and types.                                            *)
(***************************************************************************)
U64_MAX == 131071
U8_MAX == 255
VOTING_WINDOW == 180

Users == {"auth", "alice"}
Authority == "auth"
Treasury == "project_account"
Mints == {"token_mint", "other_mint"}
NoAccount == [empty |-> TRUE]

FundingGoals == {0, 1000}
Amounts == {100, 900}
SellAmounts == {0, 1, 10}
MilestoneAmounts == {500}
\* the indices a caller may name: every index in use, one that is not, and a
\* 64-bit proposal id whose low byte is 0
MilestoneIds == 0..MaxMilestones
ProposalIds == (0..MaxMilestones) \cup {256}
\* who submits an instruction, and whether that key signed it
Callers == {<<"auth", TRUE>>, <<"auth", FALSE>>, <<"alice", TRUE>>}
Signers == {c \in Callers : c[2]}
TickSteps == {VOTING_WINDOW}

(***************************************************************************)
(* Faulty variants of the arithmetic, told apart by the properties at the  *)
(* end of the module.                                                      *)
(***************************************************************************)
\* a product that forgets its second factor
product_ignoring_price(a, b) == a

\* credits quoted at a price of 1 whatever the stored price
tokens_at_unit_price(amount, current_price) == amount

\* credits rounded up instead of down
tokens_rounded_up(amount, current_price) ==
    IF current_price = 0 THEN 0 ELSE (amount + current_price - 1) \div current_price

(***************************************************************************)
(* Checked arithmetic of u64: None models Option::None.                    *)
(***************************************************************************)
None == -1

checked_add(a, b) == IF a + b > U64_MAX THEN None ELSE a + b

checked_sub(a, b) == IF a < b THEN None ELSE a - b

checked_mul(a, b) == IF a * b > U64_MAX THEN None ELSE a * b

checked_div(a, b) == IF b = 0 THEN None ELSE a \div b

unwrap_or(x, d) == IF x = None THEN d ELSE x

(***************************************************************************)
(* Helper functions for bonding curve calculations.                        *)
(***************************************************************************)
calculate_tokens(amount, current_price) ==
    unwrap_or(checked_div(amount, current_price), 0)

calculate_new_price(total_raised, funding_goal) ==
    LET price_increase ==
            unwrap_or(checked_div(unwrap_or(checked_mul(total_raised, 100), 0),
                                  funding_goal), 0)
    IN  (1 + price_increase) % (U64_MAX + 1)

(***************************************************************************)
(* Faulty variants of the conditions the handlers test.  Each differs from *)
(* the source in one comparison; the properties at the end of the module   *)
(* tell each of them apart from the condition of the source.               *)
(***************************************************************************)
\* the initialized-account test always answers "fresh"
never_initialized(account) == FALSE

\* the goal counts as reached only when it is exceeded
funding_goal_exceeded(total_raised, funding_goal) == total_raised > funding_goal

\* a completed milestone accepts a new proposal
open_milestone_has_proposal(milestone) == milestone.has_proposal /\ ~milestone.is_completed

\* voting closes one second early
voting_period_ended_early(clock, voting_end) == clock >= voting_end

\* release opens one second early
voting_period_not_ended_early(clock, voting_end) == clock < voting_end

\* a tie passes
proposal_lost(yes_votes, no_votes) == yes_votes < no_votes

\* the completed-milestone test never answers "completed"
never_completed(milestone) == FALSE

\* the is_active guard lets every project through
never_inactive(project_record) == FALSE

\* an executed proposal passes for one not yet executed
never_executed(proposal) == FALSE

\* the treasury is never found short before the burn
balance_never_short(project_balance, sol_to_return) == FALSE

\* a lamport move that credits the receiver and leaves the sender as it was
credit_without_debit(s, from, to, amount) ==
    [s EXCEPT !.lamports = [@ EXCEPT ![to] = @ + amount]]

(***************************************************************************)
(* The accounts an instruction works on, and what a handler returns: its   *)
(* ProgramResult (err), the external effects and account writes it issued  *)
(* before returning (fx), and the accounts as it left them (s).            *)
(***************************************************************************)
Cur ==
    [project |-> project, lamports |-> lamports, tokens |-> tokens,
     milestones |-> milestones, proposals |-> proposals]

Ret(e, fx, s) == [err |-> e, fx |-> fx, s |-> s]

\* Project::unpack / Proposal::unpack / Milestone::unpack slice the account data
\* (src[offset..offset + 32]); on an account that was never created the data is
\* empty and the slice panics.
Unpackable(acct) == acct # NoAccount

\* system_instruction::transfer and create_account fail when the payer lacks funds.
CanPay(s, payer, amount) == s.lamports[payer] >= amount

MoveLamports(s, from, to, amount) ==
    [s EXCEPT !.lamports = [@ EXCEPT ![from] = @ - amount, ![to] = @ + amount]]

\* A token account of the SPL token program: its owner and its mint.  Only the
\* balances of the project's mint change; accounts of another mint hold a fixed
\* balance.
TokenAccounts == [owner : Users, mint : Mints]

TokenAmount(s, tacct) ==
    IF tacct.mint = "token_mint" THEN s.tokens[tacct.owner] ELSE OtherMintBalance

(***************************************************************************)
(* The conditions the handlers test.                                       *)
(***************************************************************************)
\* project_account.data.borrow().iter().any(|&x| x != 0)
already_initialized(account) == account # NoAccount

\* if milestone.is_completed
milestone_is_completed(milestone) == milestone.is_completed

\* if !project.is_active
project_not_active(project_record) == ~project_record.is_active

\* if project.total_raised >= project.funding_goal
funding_goal_reached(total_raised, funding_goal) == total_raised >= funding_goal

\* if milestone.has_proposal
milestone_has_proposal(milestone) == milestone.has_proposal

\* if proposal.is_executed
proposal_is_executed(proposal) == proposal.is_executed

\* if project_balance < sol_to_return
project_balance_short(project_balance, sol_to_return) == project_balance < sol_to_return

\* if clock.unix_timestamp > proposal.voting_end
voting_period_ended(clock, voting_end) == clock > voting_end

\* if clock.unix_timestamp <= proposal.voting_end
voting_period_not_ended(clock, voting_end) == clock <= voting_end

\* if proposal.yes_votes <= proposal.no_votes
proposal_did_not_pass(yes_votes, no_votes) == yes_votes <= no_votes

(***************************************************************************)
(* Initialize project instruction processor.                               *)
(***************************************************************************)
process_initialize_project(s, authority_account, is_signer, funding_goal) ==
    IF ~is_signer THEN Ret("MissingRequiredSignature", <<>>, s)
    \* the project account is the PDA of [b"project", Authority]
    ELSE IF authority_account # Authority THEN Ret("InvalidProjectAccount", <<>>, s)
    ELSE IF already_initialized(s.project) THEN Ret("InvalidProjectAccount", <<>>, s)
    ELSE IF ~CanPay(s, authority_account, RentExempt)
         THEN Ret("InsufficientFunds", <<>>, s)
    ELSE LET s1 == MoveLamports(s, authority_account, Treasury, RentExempt)
             s2 == [s1 EXCEPT !.project =
                       [authority |-> authority_account,
                        funding_goal |-> funding_goal,
                        total_raised |-> 0,
                        token_price |-> 1,
                        is_active |-> TRUE,
                        token_mint |-> "token_mint",
                        milestone_count |-> 0,
                        proposal_count |-> 0]]
         IN  Ret("Ok", <<"create_account", "write_project">>, s2)

(***************************************************************************)
(* Contribute instruction processor.                                       *)
(***************************************************************************)
process_contribute(s, contributor_account, is_signer, amount) ==
    IF ~is_signer THEN Ret("MissingRequiredSignature", <<>>, s)
    ELSE IF ~Unpackable(s.project) THEN Ret("Panic", <<>>, s)
    ELSE IF project_not_active(s.project) THEN Ret("ProjectNotActive", <<>>, s)
    ELSE IF funding_goal_reached(s.project.total_raised, s.project.funding_goal)
         THEN Ret("FundingGoalReached", <<>>, s)
    ELSE LET tokens_to_mint == calculate_tokens(amount, s.project.token_price)
         IN  IF ~CanPay(s, contributor_account, amount)
             THEN Ret("InsufficientFunds", <<>>, s)
             ELSE LET s1 == MoveLamports(s, contributor_account, Treasury, amount)
                      s2 == [s1 EXCEPT !.tokens[contributor_account] = @ + tokens_to_mint]
                      fx == <<"transfer", "mint_to">>
                      total == checked_add(s2.project.total_raised, amount)
                  IN  IF total = None THEN Ret("Overflow", fx, s2)
                      ELSE LET price == calculate_new_price(total, s2.project.funding_goal)
                               s3 == [s2 EXCEPT !.project.total_raised = total,
                                                !.project.token_price = price,
                                                !.project.is_active =
                                                    IF funding_goal_reached(total, s2.project.funding_goal)
                                                    THEN FALSE ELSE @]
                           IN  Ret("Ok", fx \o <<"write_project">>, s3)

\* a faulty Buy: Contribute with one credit more
buy_with_bonus_credit(s, buyer_account, is_signer, amount) ==
    LET r == process_contribute(s, buyer_account, is_signer, amount)
    IN  IF r.err = "Ok" THEN [r EXCEPT !.s.tokens[buyer_account] = @ + 1] ELSE r

(***************************************************************************)
(* Buy tokens instruction processor.                                       *)
(***************************************************************************)
process_buy_tokens(s, buyer_account, is_signer, amount) ==
    IF ~is_signer THEN Ret("MissingRequiredSignature", <<>>, s)
    ELSE IF ~Unpackable(s.project) THEN Ret("Panic", <<>>, s)
    ELSE IF project_not_active(s.project) THEN Ret("ProjectNotActive", <<>>, s)
    ELSE LET tokens_to_mint == calculate_tokens(amount, s.project.token_price)
         IN  IF ~CanPay(s, buyer_account, amount)
             THEN Ret("InsufficientFunds", <<>>, s)
             ELSE LET s1 == MoveLamports(s, buyer_account, Treasury, amount)
                      s2 == [s1 EXCEPT !.tokens[buyer_account] = @ + tokens_to_mint]
                      fx == <<"transfer", "mint_to">>
                      total == checked_add(s2.project.total_raised, amount)
                  IN  IF total = None THEN Ret("Overflow", fx, s2)
                      ELSE LET price == calculate_new_price(total, s2.project.funding_goal)
                               s3 == [s2 EXCEPT !.project.total_raised = total,
                                                !.project.token_price = price,
                                                !.project.is_active =
                                                    IF funding_goal_reached(total, s2.project.funding_goal)
                                                    THEN FALSE ELSE @]
                           IN  Ret("Ok", fx \o <<"write_project">>, s3)

(***************************************************************************)
(* Sell tokens instruction processor.                                      *)
(***************************************************************************)
process_sell_tokens(s, seller_account, is_signer, seller_token_account, project_token, amount) ==
    IF ~is_signer THEN Ret("MissingRequiredSignature", <<>>, s)
    ELSE IF ~Unpackable(s.project) THEN Ret("Panic", <<>>, s)
    ELSE IF project_not_active(s.project) THEN Ret("ProjectNotActive", <<>>, s)
    ELSE IF s.project.token_mint # project_token THEN Ret("InvalidAccountData", <<>>, s)
    ELSE IF TokenAmount(s, seller_token_account) < amount
         THEN Ret("InvalidAmount", <<>>, s)
    ELSE IF seller_token_account.mint # project_token
         THEN Ret("InvalidAccountData", <<>>, s)
    ELSE IF seller_token_account.owner # seller_account
         THEN Ret("InvalidAccountData", <<>>, s)
    ELSE LET sol_to_return == checked_mul(amount, s.project.token_price)
         IN  IF sol_to_return = None THEN Ret("Overflow", <<>>, s)
             ELSE IF project_balance_short(s.lamports[Treasury], sol_to_return)
                  THEN Ret("InvalidAmount", <<>>, s)
             ELSE LET s1 == [s EXCEPT !.tokens[seller_account] = @ - amount]
                      s2 == MoveLamports(s1, Treasury, seller_account, sol_to_return)
                      fx == <<"burn", "lamports">>
                      total == checked_sub(s2.project.total_raised, sol_to_return)
                  IN  \* the balance is tested a second time, after the burn
                      IF s1.lamports[Treasury] < sol_to_return
                      THEN Ret("InvalidAmount", <<"burn">>, s1)
                      ELSE IF total = None THEN Ret("Overflow", fx, s2)
                      ELSE LET price == calculate_new_price(total, s2.project.funding_goal)
                               s3 == [s2 EXCEPT !.project.total_raised = total,
                                                !.project.token_price = price,
                                                !.project.is_active =
                                                    IF funding_goal_reached(total, s2.project.funding_goal)
                                                    THEN FALSE ELSE @]
                           IN  Ret("Ok", fx \o <<"write_project">>, s3)

(***************************************************************************)
(* Program derived addresses.  A milestone or proposal account is named by *)
(* the index its address derives from: the account a caller supplies is    *)
(* the expected one exactly when its index equals the seed index.          *)
(***************************************************************************)
as_u8(x) == x % (U8_MAX + 1)

\* `count += 1` on a u8 is unchecked: a build with overflow checks panics at 255,
\* a build without them wraps to 0.
add_u8(a, b, overflow_checks) ==
    IF a + b > U8_MAX THEN (IF overflow_checks THEN None ELSE as_u8(a + b)) ELSE a + b

\* `votes += 1` on a u64 is unchecked in the same way.
add_u64(a, b, overflow_checks) ==
    IF a + b > U64_MAX THEN (IF overflow_checks THEN None ELSE (a + b) % (U64_MAX + 1))
    ELSE a + b

AccountAt(accounts, index) ==
    IF index \in DOMAIN accounts THEN accounts[index] ELSE NoAccount

Put(accounts, index, rec) ==
    [i \in DOMAIN accounts \cup {index} |-> IF i = index THEN rec ELSE accounts[i]]

\* faulty variant: the key is compared, the signature is not required
authority_key_only(s, authority_account, is_signer) ==
    authority_account # s.project.authority

\* if !authority_account.is_signer || authority_account.key != &project.authority
InvalidAuthority(s, authority_account, is_signer) ==
    ~is_signer \/ authority_account # s.project.authority

(***************************************************************************)
(* Add milestone instruction processor.                                    *)
(***************************************************************************)
process_add_milestone(s, milestone_account, authority_account, is_signer, amount, oc) ==
    IF ~Unpackable(s.project) THEN Ret("Panic", <<>>, s)
    ELSE IF InvalidAuthority(s, authority_account, is_signer)
         THEN Ret("InvalidAuthority", <<>>, s)
    ELSE LET milestone_index == s.project.milestone_count
         IN  IF milestone_account # milestone_index THEN Ret("IncorrectProgramId", <<>>, s)
             ELSE IF already_initialized(AccountAt(s.milestones, milestone_account))
                  THEN Ret("AccountAlreadyInitialized", <<>>, s)
             ELSE IF ~CanPay(s, authority_account, RentExempt)
                  THEN Ret("InsufficientFunds", <<>>, s)
             ELSE LET s1 == [s EXCEPT !.lamports[authority_account] = @ - RentExempt]
                      milestone == [amount |-> amount,
                                    is_completed |-> FALSE,
                                    completed_at |-> 0,
                                    has_proposal |-> FALSE]
                      s2 == [s1 EXCEPT !.milestones = Put(@, milestone_index, milestone)]
                      fx == <<"create_account", "write_milestone">>
                      count == add_u8(s2.project.milestone_count, 1, oc)
                  IN  IF count = None THEN Ret("Panic", fx, s2)
                      ELSE Ret("Ok", fx \o <<"write_project">>,
                               [s2 EXCEPT !.project.milestone_count = count])

(***************************************************************************)
(* Create proposal instruction processor.                                  *)
(***************************************************************************)
process_create_proposal(s, clock, proposal_account, authority_account, is_signer, milestone_account, milestone_id, oc) ==
    IF ~Unpackable(s.project) THEN Ret("Panic", <<>>, s)
    ELSE IF InvalidAuthority(s, authority_account, is_signer)
         THEN Ret("InvalidAuthority", <<>>, s)
    ELSE IF ~Unpackable(AccountAt(s.milestones, milestone_account))
         THEN Ret("Panic", <<>>, s)
    ELSE IF milestone_account # milestone_id THEN Ret("IncorrectProgramId", <<>>, s)
    ELSE IF milestone_has_proposal(s.milestones[milestone_account])
         THEN Ret("MilestoneAlreadyHasProposal", <<>>, s)
    ELSE LET proposal_index == s.project.proposal_count
         IN  IF proposal_account # proposal_index THEN Ret("IncorrectProgramId", <<>>, s)
             ELSE IF already_initialized(AccountAt(s.proposals, proposal_account))
                  THEN Ret("AccountAlreadyInitialized", <<>>, s)
             ELSE IF ~CanPay(s, authority_account, RentExempt)
                  THEN Ret("InsufficientFunds", <<>>, s)
             ELSE LET s1 == [s EXCEPT !.lamports[authority_account] = @ - RentExempt]
                      proposal == [creator |-> authority_account,
                                   milestone_id |-> milestone_id,
                                   yes_votes |-> 0,
                                   no_votes |-> 0,
                                   is_executed |-> FALSE,
                                   created_at |-> clock,
                                   voting_end |-> clock + VOTING_WINDOW]
                      s2 == [s1 EXCEPT !.proposals = Put(@, proposal_index, proposal)]
                      s3 == [s2 EXCEPT !.milestones[milestone_account].has_proposal = TRUE]
                      fx == <<"create_account", "write_proposal", "write_milestone">>
                      count == add_u8(s3.project.proposal_count, 1, oc)
                  IN  IF count = None THEN Ret("Panic", fx, s3)
                      ELSE Ret("Ok", fx \o <<"write_project">>,
                               [s3 EXCEPT !.project.proposal_count = count])

(***************************************************************************)
(* Vote instruction processor.                                             *)
(***************************************************************************)
process_vote(s, clock, proposal_account, voter_account, is_signer, proposal_id, vote, oc) ==
    IF ~is_signer THEN Ret("MissingRequiredSignature", <<>>, s)
    ELSE IF ~Unpackable(s.project) THEN Ret("Panic", <<>>, s)
    ELSE IF proposal_account # as_u8(proposal_id) THEN Ret("IncorrectProgramId", <<>>, s)
    ELSE IF ~Unpackable(AccountAt(s.proposals, proposal_account))
         THEN Ret("Panic", <<>>, s)
    ELSE LET proposal == s.proposals[proposal_account]
         IN  IF proposal_is_executed(proposal) THEN Ret("ProposalAlreadyExecuted", <<>>, s)
             ELSE IF voting_period_ended(clock, proposal.voting_end)
                  THEN Ret("VotingPeriodEnded", <<>>, s)
             ELSE LET yes == IF vote THEN add_u64(proposal.yes_votes, 1, oc)
                                     ELSE proposal.yes_votes
                      no == IF vote THEN proposal.no_votes
                                    ELSE add_u64(proposal.no_votes, 1, oc)
                  IN  IF yes = None \/ no = None THEN Ret("Panic", <<>>, s)
                      ELSE Ret("Ok", <<"write_proposal">>,
                               [s EXCEPT !.proposals[proposal_account].yes_votes = yes,
                                         !.proposals[proposal_account].no_votes = no])

(***************************************************************************)
(* Release funds instruction processor.                                    *)
(***************************************************************************)
\* faulty variant: the release path stamps the completion time as well
completed_and_stamped(milestone, clock) ==
    [milestone EXCEPT !.is_completed = TRUE, !.completed_at = clock]

\* milestone.is_completed = true
completed_by_release(milestone, clock) == [milestone EXCEPT !.is_completed = TRUE]

process_release_funds(s, clock, proposal_account, authority_account, is_signer, milestone_account, proposal_id) ==
    IF ~Unpackable(s.project) THEN Ret("Panic", <<>>, s)
    ELSE IF InvalidAuthority(s, authority_account, is_signer)
         THEN Ret("InvalidAuthority", <<>>, s)
    ELSE IF proposal_account # as_u8(proposal_id) THEN Ret("IncorrectProgramId", <<>>, s)
    ELSE IF ~Unpackable(AccountAt(s.proposals, proposal_account))
         THEN Ret("Panic", <<>>, s)
    ELSE LET proposal == s.proposals[proposal_account]
         IN  IF proposal_is_executed(proposal) THEN Ret("ProposalAlreadyExecuted", <<>>, s)
             ELSE IF voting_period_not_ended(clock, proposal.voting_end)
                  THEN Ret("VotingPeriodNotEnded", <<>>, s)
             ELSE IF proposal_did_not_pass(proposal.yes_votes, proposal.no_votes)
                  THEN Ret("ProposalDidNotPass", <<>>, s)
             ELSE IF ~Unpackable(AccountAt(s.milestones, milestone_account))
                  THEN Ret("Panic", <<>>, s)
             ELSE IF milestone_account # proposal.milestone_id
                  THEN Ret("IncorrectProgramId", <<>>, s)
             ELSE LET amount_to_release == s.milestones[milestone_account].amount
                  IN  IF s.lamports[Treasury] < amount_to_release
                      THEN Ret("InvalidAmount", <<>>, s)
                      ELSE LET s1 == MoveLamports(s, Treasury, authority_account,
                                                  amount_to_release)
                               s2 == [s1 EXCEPT
                                        !.proposals[proposal_account].is_executed = TRUE]
                               s3 == [s2 EXCEPT
                                        !.milestones[milestone_account] =
                                            completed_by_release(@, clock)]
                           IN  Ret("Ok", <<"lamports", "write_proposal", "write_milestone">>,
                                   s3)

(***************************************************************************)
(* Complete milestone instruction processor.                               *)
(***************************************************************************)
process_complete_milestone(s, clock, milestone_account, authority_account, is_signer, milestone_id) ==
    IF ~Unpackable(s.project) THEN Ret("Panic", <<>>, s)
    ELSE IF InvalidAuthority(s, authority_account, is_signer)
         THEN Ret("InvalidAuthority", <<>>, s)
    ELSE IF milestone_account # milestone_id THEN Ret("IncorrectProgramId", <<>>, s)
    ELSE IF ~Unpackable(AccountAt(s.milestones, milestone_account))
         THEN Ret("Panic", <<>>, s)
    ELSE IF milestone_is_completed(s.milestones[milestone_account])
         THEN Ret("MilestoneAlreadyCompleted", <<>>, s)
    ELSE Ret("Ok", <<"write_milestone">>,
             [s EXCEPT !.milestones[milestone_account].is_completed = TRUE,
                       !.milestones[milestone_account].completed_at = clock])

(***************************************************************************)
(* The state machine.  entrypoint!(process_instruction): the host commits  *)
(* the accounts a handler wrote when it returns Ok and discards them when  *)
(* it returns Err.                                                         *)
(***************************************************************************)
NoAccounts == [i \in {} |-> NoAccount]

\* no helper call is under evaluation
NoCall == [fn |-> "none"]
Pending == <<>>

\* no lamports have moved into or out of the treasury yet
NoHistory ==
    [paid |-> [u \in Users |-> 0], refunded |-> [u \in Users |-> 0],
     released |-> [m \in {} |-> 0]]

\* the lamports released so far on the proposal of milestone m
Released(h, m) == IF m \in DOMAIN h.released THEN h.released[m] ELSE 0

\* before any instruction: no account of the program exists
NothingCreated ==
    /\ project = NoAccount
    /\ lamports = [a \in Users \cup {Treasury} |-> IF a = Treasury THEN 0 ELSE StartLamports]
    /\ tokens = [u \in Users |-> 0]
    /\ milestones = NoAccounts
    /\ proposals = NoAccounts
    /\ now = 0
    /\ trades = 0
    /\ history = NoHistory

Init ==
    /\ NothingCreated
    /\ args = NoCall
    /\ result = Pending

\* a faulty host that keeps what a failed handler wrote
kept_on_error(r) == r.s

\* the accounts the host keeps after a handler returned r
Committed(r) == IF r.err = "Ok" THEN r.s ELSE Cur

\* an invocation that returned Err is no step of the state machine
Commit(r) ==
    LET after == Committed(r)
    IN  /\ r.err = "Ok"
        /\ project' = after.project
        /\ lamports' = after.lamports
        /\ tokens' = after.tokens
        /\ milestones' = after.milestones
        /\ proposals' = after.proposals

\* a trade that changes an account counts against MaxTrades; what it moved into
\* the treasury was paid by user u, what it moved out was refunded to u
Trade(r, u) ==
    LET moved == Committed(r).lamports[Treasury] - lamports[Treasury]
    IN  /\ Committed(r) # Cur => trades < MaxTrades
        /\ Commit(r)
        /\ trades' = IF Committed(r) # Cur THEN trades + 1 ELSE trades
        /\ history' = IF moved >= 0 THEN [history EXCEPT !.paid[u] = @ + moved]
                                    ELSE [history EXCEPT !.refunded[u] = @ - moved]
        /\ UNCHANGED <<now, args, result>>

RECURSIVE VotesOf(_, _)
VotesOf(props, ids) ==
    IF ids = {} THEN 0
    ELSE LET i == CHOOSE j \in ids : TRUE
         IN  props[i].yes_votes + props[i].no_votes + VotesOf(props, ids \ {i})

VotesCast == VotesOf(proposals, DOMAIN proposals)

\* the unchecked increments are build-dependent only where they overflow
Builds(overflows) == IF overflows THEN BOOLEAN ELSE {TRUE}

InitializeProject(c, funding_goal) ==
    /\ Commit(process_initialize_project(Cur, c[1], c[2], funding_goal))
    /\ UNCHANGED <<now, trades, args, result, history>>

Contribute(c, amount) ==
    Trade(process_contribute(Cur, c[1], c[2], amount), c[1])

BuyTokens(c, amount) ==
    Trade(process_buy_tokens(Cur, c[1], c[2], amount), c[1])

SellTokens(c, tacct, mint, amount) ==
    Trade(process_sell_tokens(Cur, c[1], c[2], tacct, mint, amount), c[1])

AddMilestone(c, macct, amount, oc) ==
    LET r == process_add_milestone(Cur, macct, c[1], c[2], amount, oc)
    IN  /\ r.err = "Ok" => Cardinality(DOMAIN milestones) < MaxMilestones
        /\ Commit(r)
        /\ UNCHANGED <<now, trades, args, result, history>>

\* a proposal is created only while MaxTime leaves a tick after its voting window
CreateProposal(c, pacct, macct, milestone_id, oc) ==
    LET r == process_create_proposal(Cur, now, pacct, c[1], c[2], macct, milestone_id, oc)
    IN  /\ r.err = "Ok" => now + 2 * VOTING_WINDOW <= MaxTime
        /\ Commit(r)
        /\ UNCHANGED <<now, trades, args, result, history>>

Vote(c, pacct, proposal_id, vote, oc) ==
    LET r == process_vote(Cur, now, pacct, c[1], c[2], proposal_id, vote, oc)
    IN  /\ r.err = "Ok" => VotesCast < MaxVotes
        /\ Commit(r)
        /\ UNCHANGED <<now, trades, args, result, history>>

\* what a release moved out of the treasury is booked on the proposal's milestone
ReleaseFunds(c, pacct, macct, proposal_id) ==
    LET r == process_release_funds(Cur, now, pacct, c[1], c[2], macct, proposal_id)
        m == proposals[pacct].milestone_id
        moved == lamports[Treasury] - Committed(r).lamports[Treasury]
    IN  /\ Commit(r)
        /\ history' = [history EXCEPT !.released = Put(@, m, Released(history, m) + moved)]
        /\ UNCHANGED <<now, trades, args, result>>

CompleteMilestone(c, macct, milestone_id) ==
    /\ Commit(process_complete_milestone(Cur, now, macct, c[1], c[2], milestone_id))
    /\ UNCHANGED <<now, trades, args, result, history>>

\* the cluster clock only moves forward
Tick ==
    /\ \E d \in TickSteps : now + d <= MaxTime /\ now' = now + d
    /\ UNCHANGED <<project, lamports, tokens, milestones, proposals, trades, args, result,
                   history>>

(***************************************************************************)
(* The instructions a client can submit.  A handler that rejects the       *)
(* caller returns before it reads anything else, so a rejected caller is   *)
(* paired with one choice of the other inputs; an account is either the    *)
(* one the seeds derive or one other.                                      *)
(***************************************************************************)
ByAuthority == {c \in Callers : c[1] = Authority /\ c[2]}

OwnAccount(u) == [owner |-> u, mint |-> "token_mint"]

\* <<caller, funding_goal>>
InitializeRequests == {<<c, g>> \in Callers \X FundingGoals : c[2] \/ g = 1000}

\* <<caller, amount>>
TradeRequests == {<<c, a>> \in Callers \X Amounts : c[2] \/ a = 100}

\* a seller's own account of the project's mint with every amount; a wrong
\* account, a wrong mint or a missing signature with amount 1
SellRequests ==
    {<<c, t, m, a>> \in Callers \X TokenAccounts \X Mints \X SellAmounts :
        \/ c[2] /\ t = OwnAccount(c[1]) /\ m = "token_mint"
        \/ a = 1 /\ c[2] /\ (t = OwnAccount(c[1]) \/ m = "token_mint")
        \/ a = 1 /\ t = OwnAccount(c[1]) /\ m = "token_mint"}

\* <<caller, milestone account, milestone_id>>
MilestoneRequests ==
    {<<c, i, m>> \in Callers \X MilestoneIds \X MilestoneIds :
        \/ c \in ByAuthority /\ (i = m \/ (i = 1 /\ m = 0))
        \/ i = 0 /\ m = 0}

\* <<caller, proposal account, proposal_id>>
ProposalRequests ==
    {<<c, p, id>> \in Callers \X MilestoneIds \X ProposalIds :
        \/ c \in ByAuthority /\ (p = as_u8(id) \/ (p = 1 /\ id = 0))
        \/ p = 0 /\ id = 0}

VoteRequests ==
    {<<c, p, id>> \in Callers \X MilestoneIds \X ProposalIds :
        \/ c[2] /\ (p = as_u8(id) \/ (p = 1 /\ id = 0))
        \/ p = 0 /\ id = 0}

Next ==
    \/ \E q \in InitializeRequests : InitializeProject(q[1], q[2])
    \/ \E q \in TradeRequests : Contribute(q[1], q[2])
    \/ \E q \in TradeRequests : BuyTokens(q[1], q[2])
    \/ \E q \in SellRequests : SellTokens(q[1], q[2], q[3], q[4])
    \/ \E q \in MilestoneRequests, a \in MilestoneAmounts :
          /\ q[2] = q[3]
          /\ \E oc \in Builds(project # NoAccount /\ project.milestone_count = U8_MAX) :
                AddMilestone(q[1], q[2], a, oc)
    \/ \E q \in MilestoneRequests, p \in MilestoneIds :
          /\ (q[1] \in ByAuthority /\ q[2] = q[3]) \/ p = 0
          /\ \E oc \in Builds(project # NoAccount /\ project.proposal_count = U8_MAX) :
                CreateProposal(q[1], p, q[2], q[3], oc)
    \/ \E q \in VoteRequests, v \in BOOLEAN :
          /\ (q[1][2] /\ q[2] = as_u8(q[3])) \/ v
          /\ \E oc \in Builds(\E i \in DOMAIN proposals :
                                 U64_MAX \in {proposals[i].yes_votes, proposals[i].no_votes}) :
                Vote(q[1], q[2], q[3], v, oc)
    \/ \E q \in ProposalRequests, i \in MilestoneIds :
          /\ (q[1] \in ByAuthority /\ q[2] = as_u8(q[3])) \/ i = 0
          /\ ReleaseFunds(q[1], q[2], i, q[3])
    \/ \E q \in MilestoneRequests : CompleteMilestone(q[1], q[2], q[3])
    \/ Tick

Spec == Init /\ [][Next]_vars

\* Spec under a second name: the properties that read the payments booked in
\* history, and those of the error paths, are model-checked on their own
SpecLedger == Init /\ [][Next]_vars

(***************************************************************************)
(* SpecPure: the bonding curve helpers on their own.  A state holds the    *)
(* arguments of one call; the action of a helper evaluates it on them.     *)
(***************************************************************************)
\* u64 values around the places where the helpers change behaviour: 0, the
\* amounts of the scenarios, the largest total whose hundredfold fits (1310),
\* the first that does not (1311), and the largest u64
PureTotals == {0, 1, 9, 10, 100, 900, 1000, 1310, 1311, 1800, U64_MAX}
PureGoals == {0, 1, 3, 1000, U64_MAX}
PureAmounts == {0, 1, 2, 7, 100, 900, U64_MAX}
PurePrices == {0, 1, 2, 3, 11, 91, U64_MAX}

PriceCalls ==
    {c \in [fn : {"calculate_new_price"}, t1 : PureTotals, t2 : PureTotals, g : PureGoals] :
        c.t1 <= c.t2}

TokenCalls == [fn : {"calculate_tokens"}, amount : PureAmounts, price : PurePrices]

PureInit ==
    /\ NothingCreated
    /\ args \in PriceCalls \cup TokenCalls
    /\ result = Pending

\* the price at two totals t1 <= t2 of one funding goal
EvalNewPrice ==
    /\ args.fn = "calculate_new_price"
    /\ result = Pending
    /\ result' = <<calculate_new_price(args.t1, args.g), calculate_new_price(args.t2, args.g)>>
    /\ UNCHANGED <<project, lamports, tokens, milestones, proposals, now, trades, args,
                 history>>

EvalTokens ==
    /\ args.fn = "calculate_tokens"
    /\ result = Pending
    /\ result' = <<calculate_tokens(args.amount, args.price)>>
    /\ UNCHANGED <<project, lamports, tokens, milestones, proposals, now, trades, args,
                 history>>

PureNext == EvalNewPrice \/ EvalTokens

SpecPure == PureInit /\ [][PureNext]_vars

(***************************************************************************)
(* SpecLate: a project late in its life.  The authority has added 255      *)
(* milestones and created a proposal on each, so both u8 counters stand at *)
(* 255 and the next AddMilestone and CreateProposal use the last index.    *)
(* The 256 addresses an index can derive bound the run.                    *)
(***************************************************************************)
LateProject ==
    [authority |-> Authority, funding_goal |-> 1000, total_raised |-> 0, token_price |-> 1,
     is_active |-> TRUE, token_mint |-> "token_mint", milestone_count |-> U8_MAX,
     proposal_count |-> U8_MAX]

LateMilestones ==
    [i \in 0..(U8_MAX - 1) |->
        [amount |-> 500, is_completed |-> FALSE, completed_at |-> 0, has_proposal |-> TRUE]]

LateProposals ==
    [i \in 0..(U8_MAX - 1) |->
        [creator |-> Authority, milestone_id |-> i, yes_votes |-> 0, no_votes |-> 0,
         is_executed |-> FALSE, created_at |-> 0, voting_end |-> VOTING_WINDOW]]

LateInit ==
    /\ project = LateProject
    /\ lamports = [a \in Users \cup {Treasury} |->
                      IF a = Treasury THEN RentExempt ELSE StartLamports]
    /\ tokens = [u \in Users |-> 0]
    /\ milestones = LateMilestones
    /\ proposals = LateProposals
    /\ now = 0
    /\ trades = 0
    /\ args = NoCall
    /\ result = Pending
    /\ history = NoHistory

\* the first and the last index an account address can derive from
LateIds == {0, U8_MAX}

AddLateMilestone(c, macct, amount, oc) ==
    /\ Commit(process_add_milestone(Cur, macct, c[1], c[2], amount, oc))
    /\ UNCHANGED <<now, trades, args, result, history>>

CreateLateProposal(c, pacct, macct, milestone_id, oc) ==
    /\ Commit(process_create_proposal(Cur, now, pacct, c[1], c[2], macct, milestone_id, oc))
    /\ UNCHANGED <<now, trades, args, result, history>>

LateNext ==
    \/ \E c \in Callers, i \in LateIds, a \in MilestoneAmounts :
          \E oc \in Builds(project.milestone_count = U8_MAX) : AddLateMilestone(c, i, a, oc)
    \/ \E c \in Callers, p \in LateIds, m \in LateIds :
          \E oc \in Builds(project.proposal_count = U8_MAX) :
             CreateLateProposal(c, p, m, m, oc)
    \/ \E q \in TradeRequests : Contribute(q[1], q[2])
    \/ \E c \in Callers, m \in LateIds : CompleteMilestone(c, m, m)
    \/ Tick

SpecLate == LateInit /\ [][LateNext]_vars

(***************************************************************************)
(* SpecCodec: the byte formats on their own.  Instruction data and account *)
(* data are sequences of bytes 0..255.  A state holds the input of one     *)
(* call; the action of a codec function evaluates it on that input.        *)
(***************************************************************************)
Zeros(n) == [i \in 1..n |-> 0]

\* Err(e), as opposed to Ok(value)
Failure(e) == [err |-> e]

\* src[offset..offset + n]
slice(src, offset, n) == SubSeq(src, offset + 1, offset + n)

\* u32::from_le_bytes / u64::from_le_bytes / i64::from_le_bytes
RECURSIVE from_le_bytes(_)
from_le_bytes(bytes) ==
    IF bytes = <<>> THEN 0 ELSE Head(bytes) + 256 * from_le_bytes(Tail(bytes))

\* u64::to_le_bytes / i64::to_le_bytes of a non-negative value, n bytes wide
RECURSIVE to_le_bytes(_, _)
to_le_bytes(x, n) ==
    IF n = 0 THEN <<>> ELSE <<x % 256>> \o to_le_bytes(x \div 256, n - 1)

\* String::from_utf8 succeeds: ASCII bytes and two-byte sequences (a lead byte
\* 0xC2..0xDF and one continuation byte); every other byte is malformed
from_utf8_ok(bytes) ==
    \A i \in 1..Len(bytes) :
        \/ bytes[i] < 128
        \/ /\ bytes[i] >= 194 /\ bytes[i] <= 223
           /\ i < Len(bytes) /\ bytes[i + 1] >= 128 /\ bytes[i + 1] <= 191
        \/ /\ bytes[i] >= 128 /\ bytes[i] <= 191
           /\ i > 1 /\ bytes[i - 1] >= 194 /\ bytes[i - 1] <= 223

\* the length of bytes without its trailing NUL bytes
unpadded_len(bytes) ==
    CHOOSE k \in 0..Len(bytes) :
        /\ \A i \in (k + 1)..Len(bytes) : bytes[i] = 0
        /\ k = 0 \/ bytes[k] # 0

\* faulty variant: NUL bytes are trimmed at both ends
trim_matches(bytes) ==
    LET end == unpadded_len(bytes)
        start == CHOOSE j \in 0..end :
                    /\ \A i \in 1..j : bytes[i] = 0
                    /\ j = end \/ bytes[j + 1] # 0
    IN  SubSeq(bytes, start + 1, end)

\* .trim_end_matches('\0')
trim_end_matches(bytes) == SubSeq(bytes, 1, unpadded_len(bytes))

\* let mut buffer = [0u8; width]; let len = min(bytes.len(), width);
\* buffer[..len].copy_from_slice(&bytes[..len])
padded(bytes, width) ==
    LET len == IF Len(bytes) < width THEN Len(bytes) ELSE width
    IN  SubSeq(bytes, 1, len) \o Zeros(width - len)

\* `flag as u8`
bool_as_u8(flag) == IF flag THEN 1 ELSE 0

Project_pack(p) ==
    p.authority \o padded(p.name, 32) \o padded(p.symbol, 8)
        \o to_le_bytes(p.funding_goal, 8) \o to_le_bytes(p.total_raised, 8)
        \o to_le_bytes(p.token_price, 8) \o <<bool_as_u8(p.is_active)>> \o <<p.bump>>
        \o p.token_mint \o <<p.milestone_count>> \o <<p.proposal_count>>

Project_unpack(src) ==
    IF ~from_utf8_ok(slice(src, 32, 32)) \/ ~from_utf8_ok(slice(src, 64, 8))
    THEN Failure("InvalidAccountData")
    ELSE [authority |-> slice(src, 0, 32),
          name |-> trim_end_matches(slice(src, 32, 32)),
          symbol |-> trim_end_matches(slice(src, 64, 8)),
          funding_goal |-> from_le_bytes(slice(src, 72, 8)),
          total_raised |-> from_le_bytes(slice(src, 80, 8)),
          token_price |-> from_le_bytes(slice(src, 88, 8)),
          is_active |-> src[97] # 0,
          bump |-> src[98],
          token_mint |-> slice(src, 98, 32),
          milestone_count |-> src[131],
          proposal_count |-> src[132]]

Proposal_pack(p) ==
    p.creator \o padded(p.title, 32) \o padded(p.description, 256) \o <<p.milestone_id>>
        \o to_le_bytes(p.yes_votes, 8) \o to_le_bytes(p.no_votes, 8)
        \o <<bool_as_u8(p.is_executed)>> \o to_le_bytes(p.created_at, 8)
        \o to_le_bytes(p.voting_end, 8)

Proposal_unpack(src) ==
    IF ~from_utf8_ok(slice(src, 32, 32)) \/ ~from_utf8_ok(slice(src, 64, 256))
    THEN Failure("InvalidAccountData")
    ELSE [creator |-> slice(src, 0, 32),
          title |-> trim_end_matches(slice(src, 32, 32)),
          description |-> trim_end_matches(slice(src, 64, 256)),
          milestone_id |-> src[321],
          yes_votes |-> from_le_bytes(slice(src, 321, 8)),
          no_votes |-> from_le_bytes(slice(src, 329, 8)),
          is_executed |-> src[338] # 0,
          created_at |-> from_le_bytes(slice(src, 338, 8)),
          voting_end |-> from_le_bytes(slice(src, 346, 8))]

Milestone_pack(m) ==
    padded(m.title, 32) \o padded(m.description, 256) \o to_le_bytes(m.amount, 8)
        \o <<bool_as_u8(m.is_completed)>> \o to_le_bytes(m.completed_at, 8)
        \o <<bool_as_u8(m.has_proposal)>>

Milestone_unpack(src) ==
    IF ~from_utf8_ok(slice(src, 0, 32)) \/ ~from_utf8_ok(slice(src, 32, 256))
    THEN Failure("InvalidAccountData")
    ELSE [title |-> trim_end_matches(slice(src, 0, 32)),
          description |-> trim_end_matches(slice(src, 32, 256)),
          amount |-> from_le_bytes(slice(src, 288, 8)),
          is_completed |-> src[297] # 0,
          completed_at |-> from_le_bytes(slice(src, 297, 8)),
          has_proposal |-> src[306] # 0]

\* faulty variant: a payload one byte short is let through
payload_one_short_accepted(rest, needed) == Len(rest) + 1 < needed

\* if rest.len() < needed
payload_too_short(rest, needed) == Len(rest) < needed

\* the bounds check of rest[..n]: indexing past the end panics
reads_within(rest, n) == n <= Len(rest)

\* tags 1, 2, 3 and 6: one u64
unpack_u64(rest, instruction) ==
    IF payload_too_short(rest, 8) THEN Failure("InvalidInstructionData")
    ELSE IF ~reads_within(rest, 8) THEN Failure("Panic")
    ELSE [instruction |-> instruction, value |-> from_le_bytes(slice(rest, 0, 8))]

\* tags 0, 4 and 7: two u32 lengths in a header of `header` bytes, the two
\* strings, and `tail` bytes after them
unpack_strings(rest, instruction, header, tail) ==
    IF payload_too_short(rest, header) THEN Failure("InvalidInstructionData")
    ELSE IF ~reads_within(rest, 8) THEN Failure("Panic")
    ELSE LET first_len == from_le_bytes(slice(rest, 0, 4))
             second_len == from_le_bytes(slice(rest, 4, 4))
             needed == header + first_len + second_len + tail
         IN  IF payload_too_short(rest, needed) THEN Failure("InvalidInstructionData")
             ELSE IF ~reads_within(rest, needed) THEN Failure("Panic")
             ELSE IF \/ ~from_utf8_ok(slice(rest, header, first_len))
                     \/ ~from_utf8_ok(slice(rest, header + first_len, second_len))
                  THEN Failure("InvalidInstructionData")
             ELSE [instruction |-> instruction,
                   first |-> slice(rest, header, first_len),
                   second |-> slice(rest, header + first_len, second_len),
                   value |-> from_le_bytes(slice(rest, header + first_len + second_len,
                                                 tail))]

Instruction_unpack(input) ==
    IF input = <<>> THEN Failure("InvalidInstructionData")
    ELSE LET tag == Head(input)
             rest == Tail(input)
         IN  CASE tag = 0 -> unpack_strings(rest, "InitializeProject", 8, 8)
               [] tag = 1 -> unpack_u64(rest, "Contribute")
               [] tag = 2 -> unpack_u64(rest, "BuyTokens")
               [] tag = 3 -> unpack_u64(rest, "SellTokens")
               [] tag = 4 -> unpack_strings(rest, "CreateProposal", 8, 1)
               [] tag = 5 ->
                    IF payload_too_short(rest, 9) THEN Failure("InvalidInstructionData")
                    ELSE IF ~reads_within(rest, 9) THEN Failure("Panic")
                    ELSE [instruction |-> "Vote",
                          value |-> from_le_bytes(slice(rest, 0, 8)),
                          vote |-> rest[9] # 0]
               [] tag = 6 -> unpack_u64(rest, "ReleaseFunds")
               [] tag = 7 -> unpack_strings(rest, "AddMilestone", 32, 8)
               [] tag = 8 ->
                    IF payload_too_short(rest, 1) THEN Failure("InvalidInstructionData")
                    ELSE IF ~reads_within(rest, 1) THEN Failure("Panic")
                    ELSE [instruction |-> "CompleteMilestone", value |-> rest[1]]
               [] OTHER -> Failure("InvalidInstructionData")

\* strings as UTF-8 bytes: empty, ASCII, with a NUL inside, at the end and at
\* the front, and with a two-byte character
CodecStrings == {<<>>, <<65>>, <<65, 0>>, <<65, 0, 66>>, <<0, 65>>, <<195, 169, 66>>}

\* a string that fills a field of the given width
Filling(width) == [i \in 1..width |-> 65]

CodecKeys == {Zeros(32), [i \in 1..32 |-> 7], [i \in 1..32 |-> 255]}
CodecValues == {0, 1, 1000, U64_MAX}
CodecTimes == {0, VOTING_WINDOW}
CodecCounts == {0, U8_MAX}

ProjectRecords ==
    [authority : CodecKeys, name : CodecStrings \cup {Filling(32)},
     symbol : {<<>>, <<85>>, <<85, 0>>, Filling(8)},
     funding_goal : {0, 1000}, total_raised : {U64_MAX}, token_price : {1},
     is_active : BOOLEAN, bump : CodecCounts, token_mint : {[i \in 1..32 |-> 9]},
     milestone_count : {1}, proposal_count : CodecCounts]

ProposalRecords ==
    [creator : {[i \in 1..32 |-> 7]}, title : CodecStrings \cup {Filling(32)},
     description : CodecStrings \cup {Filling(256)}, milestone_id : CodecCounts,
     yes_votes : CodecValues, no_votes : {2}, is_executed : BOOLEAN,
     created_at : CodecTimes, voting_end : {VOTING_WINDOW}]

MilestoneRecords ==
    [title : CodecStrings \cup {Filling(32)}, description : CodecStrings \cup {Filling(256)},
     amount : CodecValues, is_completed : BOOLEAN, completed_at : CodecTimes,
     has_proposal : BOOLEAN]

\* payloads: two strings behind their declared lengths in a header of `header`
\* bytes (the two lengths, then zeros), followed by `tail`
StringsPayload(header, first, second, tail) ==
    to_le_bytes(Len(first), 4) \o to_le_bytes(Len(second), 4) \o Zeros(header - 8)
        \o first \o second \o tail

\* payloads that declare more string bytes than follow
Overdeclared == {to_le_bytes(n, 4) \o to_le_bytes(1, 4) \o Zeros(40) : n \in {48, 65536}}

Payloads(tag) ==
    CASE tag \in {1, 2, 3, 6} -> {to_le_bytes(900, 8)}
      [] tag = 5 -> {to_le_bytes(256, 8) \o <<1>>}
      [] tag = 8 -> {<<1>>}
      [] tag = 0 -> Overdeclared \cup
                    {StringsPayload(8, s, <<85>>, to_le_bytes(1000, 8)) :
                        s \in {<<>>, <<65, 66>>, <<255>>}}
      [] tag = 4 -> Overdeclared \cup
                    {StringsPayload(8, s, <<68>>, <<1>>) : s \in {<<>>, <<65, 66>>}}
      [] tag = 7 -> Overdeclared \cup
                    {StringsPayload(header, s, <<68>>, to_le_bytes(500, 8)) :
                        header \in {8, 32}, s \in {<<>>, <<65, 66>>}}
      [] OTHER -> {to_le_bytes(900, 8)}

\* instruction data: nothing at all, or a tag (9 and 255 are not instructions)
\* followed by a payload cut off anywhere or carrying one byte too many
InstructionData ==
    {<<>>} \cup
    UNION {UNION {{<<tag>> \o SubSeq(payload \o <<0>>, 1, k) : k \in 0..(Len(payload) + 1)} :
                     payload \in Payloads(tag)} :
              tag \in (0..9) \cup {U8_MAX}}

CodecCalls ==
    [fn : {"Instruction::unpack"}, input : InstructionData]
        \cup [fn : {"Project"}, record : ProjectRecords]
        \cup [fn : {"Proposal"}, record : ProposalRecords]
        \cup [fn : {"Milestone"}, record : MilestoneRecords]

CodecInit ==
    /\ NothingCreated
    /\ args \in CodecCalls
    /\ result = Pending

UnpackInstruction ==
    /\ args.fn = "Instruction::unpack"
    /\ result = Pending
    /\ result' = <<Instruction_unpack(args.input)>>
    /\ UNCHANGED <<project, lamports, tokens, milestones, proposals, now, trades, args,
                 history>>

RepackProject ==
    /\ args.fn = "Project"
    /\ result = Pending
    /\ result' = <<Project_unpack(Project_pack(args.record))>>
    /\ UNCHANGED <<project, lamports, tokens, milestones, proposals, now, trades, args,
                 history>>

RepackProposal ==
    /\ args.fn = "Proposal"
    /\ result = Pending
    /\ result' = <<Proposal_unpack(Proposal_pack(args.record))>>
    /\ UNCHANGED <<project, lamports, tokens, milestones, proposals, now, trades, args,
                 history>>

RepackMilestone ==
    /\ args.fn = "Milestone"
    /\ result = Pending
    /\ result' = <<Milestone_unpack(Milestone_pack(args.record))>>
    /\ UNCHANGED <<project, lamports, tokens, milestones, proposals, now, trades, args,
                 history>>

CodecNext == UnpackInstruction \/ RepackProject \/ RepackProposal \/ RepackMilestone

SpecCodec == CodecInit /\ [][CodecNext]_vars

(***************************************************************************)
(* SpecMarket: the bonding curve market of a project right after           *)
(* InitializeProject{funding_goal: 1000}.  Supporters contribute, buy and  *)
(* sell with their own credit accounts; MaxDeals bounds the run.           *)
(***************************************************************************)
MarketInit ==
    /\ project = process_initialize_project(
                     [project |-> NoAccount,
                      lamports |-> [a \in Users \cup {Treasury} |->
                                       IF a = Treasury THEN 0 ELSE StartLamports],
                      tokens |-> [u \in Users |-> 0],
                      milestones |-> NoAccounts,
                      proposals |-> NoAccounts],
                     Authority, TRUE, 1000).s.project
    /\ lamports = [a \in Users \cup {Treasury} |->
                      IF a = Treasury THEN RentExempt
                      ELSE IF a = Authority THEN StartLamports - RentExempt
                      ELSE StartLamports]
    /\ tokens = [u \in Users |-> 0]
    /\ milestones = NoAccounts
    /\ proposals = NoAccounts
    /\ now = 0
    /\ trades = 0
    /\ args = NoCall
    /\ result = Pending
    /\ history = NoHistory

\* credits a seller offers: one, two, all that 100 lamports buy at price 11, and ten
MarketSellAmounts == {1, 2, 9, 10}

\* a deal of user u: Contribute, Buy or Sell with u's signature and own account
Deal(r, u) ==
    LET moved == Committed(r).lamports[Treasury] - lamports[Treasury]
    IN  /\ trades < MaxDeals
        /\ Commit(r)
        /\ trades' = trades + 1
        /\ history' = IF moved >= 0 THEN [history EXCEPT !.paid[u] = @ + moved]
                                    ELSE [history EXCEPT !.refunded[u] = @ - moved]
        /\ UNCHANGED <<now, args, result>>

MarketContribute(u, amount) == Deal(process_contribute(Cur, u, TRUE, amount), u)

MarketBuy(u, amount) == Deal(process_buy_tokens(Cur, u, TRUE, amount), u)

MarketSell(u, amount) ==
    Deal(process_sell_tokens(Cur, u, TRUE, OwnAccount(u), "token_mint", amount), u)

MarketNext ==
    \/ \E u \in Users, a \in Amounts : MarketContribute(u, a)
    \/ \E u \in Users, a \in Amounts : MarketBuy(u, a)
    \/ \E u \in Users, a \in MarketSellAmounts : MarketSell(u, a)

SpecMarket == MarketInit /\ [][MarketNext]_vars

(***************************************************************************)
(* Properties.                                                             *)
(***************************************************************************)
Initialized == project # NoAccount

\* floor(total_raised * 100 / funding_goal) on unbounded integers, 0 when the goal is 0
ExactIncrease(total_raised, funding_goal) ==
    IF funding_goal = 0 THEN 0 ELSE (total_raised * 100) \div funding_goal

\* C1: in every reachable state the stored token_price equals
\* 1 + floor(total_raised * 100 / funding_goal), computed exactly on the stored
\* total_raised and funding_goal (the increase being 0 when funding_goal is 0).
\* Violated: when total_raised * 100 exceeds u64, calculate_new_price falls back
\* to an increase of 0 and the stored price is 1.
C1_PriceIsExactCurve ==
    Initialized =>
        project.token_price = 1 + ExactIncrease(project.total_raised, project.funding_goal)

\* C2 as stated: for every funding goal, 0 included, is_active holds exactly
\* while total_raised < funding_goal.  Violated by Initialize with goal 0.
C2_ActiveIffBelowGoal ==
    Initialized => (project.is_active <=> project.total_raised < project.funding_goal)

\* C2 amended: for every funding goal G > 0 and every sequence of operations,
\* is_active is true if and only if total_raised < funding_goal.
C2_ActiveIffBelowPositiveGoal ==
    Initialized /\ project.funding_goal > 0 =>
        (project.is_active <=> project.total_raised < project.funding_goal)

\* a project with a positive goal that trades have carried to its goal and deactivated
C2_Witness ==
    /\ Initialized
    /\ project.funding_goal > 0
    /\ trades > 0
    /\ project.total_raised >= project.funding_goal
    /\ ~project.is_active

\* C3: deactivation is one-way: once is_active is false it is false after every
\* later operation of any kind.
C3_DeactivationIsOneWay ==
    [][Initialized /\ ~project.is_active => project' # NoAccount /\ ~project'.is_active]_vars

\* a deactivated project on which a milestone was added and completed by hand and
\* a proposal was created, voted and released
C3_Witness ==
    /\ Initialized
    /\ ~project.is_active
    /\ project.milestone_count > 0
    /\ \E p \in DOMAIN proposals : proposals[p].is_executed
    /\ \E m \in DOMAIN milestones : milestones[m].completed_at > 0

\* C4: a Vote is counted only when the voter holds a positive balance of the
\* project's credits, so that no Release succeeds on a tally a non-holder
\* contributed to.  Violated: process_vote requires a signature and nothing else.
C4_OnlyHoldersVotesCount ==
    [][\A q \in VoteRequests, v \in BOOLEAN :
          Vote(q[1], q[2], q[3], v, TRUE) /\ proposals' # proposals
              => tokens[q[1][1]] > 0]_vars

\* the proposals that target milestone m
ProposalsOn(m) == {p \in DOMAIN proposals : proposals[p].milestone_id = m}

\* C5: at most one Proposal ever targets a given Milestone: once a proposal on
\* milestone m exists, has_proposal of m is set, and every CreateProposal on m
\* fails, with MilestoneAlreadyHasProposal when the authority signs it, and
\* creates nothing, whatever was voted, released, completed or added since.
C5_OneProposalPerMilestone ==
    \A m \in DOMAIN milestones :
        /\ Cardinality(ProposalsOn(m)) <= 1
        /\ ProposalsOn(m) # {} => milestones[m].has_proposal
        /\ milestones[m].has_proposal =>
               \A c \in Callers, p \in MilestoneIds, oc \in BOOLEAN :
                   LET r == process_create_proposal(Cur, now, p, c[1], c[2], m, m, oc)
                   IN  /\ r.err # "Ok"
                       /\ c \in ByAuthority =>
                              r.err = "MilestoneAlreadyHasProposal" /\ r.s = Cur

\* the proposal on a milestone was voted and executed, and the authority's next
\* CreateProposal on that milestone is refused
C5_Witness ==
    /\ Initialized
    /\ \E m \in DOMAIN milestones, p \in DOMAIN proposals :
          /\ proposals[p].milestone_id = m
          /\ proposals[p].is_executed
          /\ proposals[p].yes_votes + proposals[p].no_votes = MaxVotes
          /\ process_create_proposal(Cur, now, project.proposal_count, Authority, TRUE,
                                     m, m, TRUE).err = "MilestoneAlreadyHasProposal"

\* C6: a proposal is executed only from passed: is_executed implies that the
\* window is over and yes_votes > no_votes, and the step that sets is_executed
\* starts with now > voting_end and yes_votes > no_votes and changes neither;
\* a proposal with yes_votes <= no_votes after the window is never executed.
C6_ExecutedOnlyFromPassed ==
    /\ [](\A p \in DOMAIN proposals :
             proposals[p].is_executed =>
                 now > proposals[p].voting_end /\ proposals[p].yes_votes > proposals[p].no_votes)
    /\ [][\A p \in DOMAIN proposals :
             /\ ~proposals[p].is_executed /\ proposals'[p].is_executed =>
                    /\ now > proposals[p].voting_end
                    /\ proposals[p].yes_votes > proposals[p].no_votes
                    /\ proposals'[p] = [proposals[p] EXCEPT !.is_executed = TRUE]
             /\ /\ now > proposals[p].voting_end
                /\ proposals[p].yes_votes <= proposals[p].no_votes
                => proposals'[p] = proposals[p]]_vars

\* an executed proposal
C6_Witness ==
    \E p \in DOMAIN proposals :
        /\ proposals[p].is_executed
        /\ proposals[p].yes_votes > proposals[p].no_votes
        /\ now > proposals[p].voting_end

\* Release as the authority submits it with the accounts the seeds derive
ReleaseBy(c, p) ==
    process_release_funds(Cur, now, p, c[1], c[2], proposals[p].milestone_id, p)

\* C7: a successful Release needs the authority's signature, a proposal not yet
\* executed, now > voting_end, yes_votes > no_votes and treasury >= amount; it
\* moves exactly the amount of the proposal's milestone from the treasury to
\* project.authority, sets is_executed and is_completed and changes nothing
\* else; every later Release on the proposal fails with ProposalAlreadyExecuted
\* and moves no value.
C7_ReleaseMovesMilestoneAmountOnce ==
    /\ [](\A p \in DOMAIN proposals :
             proposals[p].is_executed =>
                 \A q \in ProposalRequests, i \in MilestoneIds :
                     LET r == process_release_funds(Cur, now, p, q[1][1], q[1][2], i, q[3])
                     IN  /\ r.err # "Ok"
                         /\ r.s = Cur
                         /\ q[1] \in ByAuthority /\ as_u8(q[3]) = p
                                => r.err = "ProposalAlreadyExecuted")
    /\ [][\A p \in DOMAIN proposals :
             ~proposals[p].is_executed /\ proposals'[p].is_executed =>
                 LET m == proposals[p].milestone_id
                     amount == milestones[m].amount
                 IN  /\ now > proposals[p].voting_end
                     /\ proposals[p].yes_votes > proposals[p].no_votes
                     /\ lamports[Treasury] >= amount
                     /\ \A q \in ProposalRequests, i \in MilestoneIds :
                            ReleaseFunds(q[1], q[2], i, q[3]) => q[1] \in ByAuthority
                     /\ lamports' = [lamports EXCEPT ![Treasury] = @ - amount,
                                                     ![project.authority] = @ + amount]
                     /\ proposals' = [proposals EXCEPT ![p].is_executed = TRUE]
                     /\ milestones' = [milestones EXCEPT ![m].is_completed = TRUE]
                     /\ UNCHANGED <<project, tokens, now>>]_vars

\* an executed proposal whose milestone is completed, the treasury holding what
\* the trades brought in less the amount released, and a second Release refused
C7_Witness ==
    \E p \in DOMAIN proposals :
        /\ proposals[p].is_executed
        /\ milestones[proposals[p].milestone_id].is_completed
        /\ lamports[Treasury] = RentExempt + project.total_raised
                                    - milestones[proposals[p].milestone_id].amount
        /\ ReleaseBy(<<Authority, TRUE>>, p).err = "ProposalAlreadyExecuted"

\* the first failure condition of Release that holds, in the order InvalidAuthority,
\* ProposalAlreadyExecuted, VotingPeriodNotEnded, ProposalDidNotPass, InvalidAmount
FirstReleaseFailure(c, p) ==
    IF ~c[2] \/ c[1] # project.authority THEN "InvalidAuthority"
    ELSE IF proposals[p].is_executed THEN "ProposalAlreadyExecuted"
    ELSE IF now <= proposals[p].voting_end THEN "VotingPeriodNotEnded"
    ELSE IF proposals[p].yes_votes <= proposals[p].no_votes THEN "ProposalDidNotPass"
    ELSE IF lamports[Treasury] < milestones[proposals[p].milestone_id].amount
         THEN "InvalidAmount"
    ELSE "Ok"

\* C8: Release while now <= voting_end fails with VotingPeriodNotEnded whatever
\* the tally; after the window with yes_votes <= no_votes it fails with
\* ProposalDidNotPass; with a passed vote and a treasury below the milestone's
\* amount it fails with InvalidAmount; when several failure conditions hold the
\* error is the first in the order InvalidAuthority, ProposalAlreadyExecuted,
\* VotingPeriodNotEnded, ProposalDidNotPass, InvalidAmount.
C8_ReleaseFailuresInOrder ==
    \A p \in DOMAIN proposals, c \in Callers :
        ReleaseBy(c, p).err = FirstReleaseFailure(c, p)

\* a tie of one vote each after the window, with a treasury below the milestone's
\* amount: the authority gets ProposalDidNotPass, anyone else InvalidAuthority
C8_Witness ==
    \E p \in DOMAIN proposals :
        /\ now > proposals[p].voting_end
        /\ proposals[p].yes_votes = 1 /\ proposals[p].no_votes = 1
        /\ lamports[Treasury] < milestones[proposals[p].milestone_id].amount
        /\ ReleaseBy(<<Authority, TRUE>>, p).err = "ProposalDidNotPass"
        /\ ReleaseBy(<<"alice", TRUE>>, p).err = "InvalidAuthority"

\* Vote as a signer submits it with the account the seeds derive
VoteBy(s, c, p, vote) == process_vote(s, now, p, c[1], c[2], p, vote, TRUE)

\* the accounts after one more vote on proposal p
Voted(s, p, vote) ==
    IF vote THEN [s EXCEPT !.proposals[p].yes_votes = @ + 1]
    ELSE [s EXCEPT !.proposals[p].no_votes = @ + 1]

\* C9: Vote fails with ProposalAlreadyExecuted if the proposal is executed, else
\* with VotingPeriodEnded if now > voting_end; otherwise it succeeds and adds
\* exactly 1 to the counter the flag chooses, leaving the other counter and
\* every other field as they were.  There is no duplicate-vote prevention: the
\* same voter is accepted again, each vote adding 1.
C9_VoteCountsEveryCall ==
    /\ [](\A p \in DOMAIN proposals, c \in Signers, vote \in BOOLEAN :
             LET r == VoteBy(Cur, c, p, vote)
             IN  IF proposals[p].is_executed THEN r.err = "ProposalAlreadyExecuted"
                 ELSE IF now > proposals[p].voting_end THEN r.err = "VotingPeriodEnded"
                 ELSE /\ r.err = "Ok"
                      /\ r.s = Voted(Cur, p, vote)
                      /\ VoteBy(r.s, c, p, vote).err = "Ok"
                      /\ VoteBy(r.s, c, p, vote).s = Voted(Voted(Cur, p, vote), p, vote))
    /\ [][\A p \in DOMAIN proposals :
             <<proposals'[p].yes_votes, proposals'[p].no_votes>>
                 # <<proposals[p].yes_votes, proposals[p].no_votes>> =>
                 /\ ~proposals[p].is_executed
                 /\ now <= proposals[p].voting_end
                 /\ \E vote \in BOOLEAN : proposals' = Voted(Cur, p, vote).proposals
                 /\ UNCHANGED <<project, lamports, tokens, milestones, now>>]_vars

\* two votes were counted on an open proposal and every signer, whoever cast
\* them, is accepted once more
C9_Witness ==
    \E p \in DOMAIN proposals :
        /\ proposals[p].yes_votes + proposals[p].no_votes = 2
        /\ now <= proposals[p].voting_end
        /\ \A c \in Signers, vote \in BOOLEAN : VoteBy(Cur, c, p, vote).err = "Ok"

\* some signer's Vote on proposal p succeeds
VoteCanSucceed(p) == \E c \in Signers, vote \in BOOLEAN : VoteBy(Cur, c, p, vote).err = "Ok"

\* some caller's Release on proposal p gets past the time check
ReleasePastTimeCheck(p) ==
    \E c \in Callers : ReleaseBy(c, p).err \in {"ProposalDidNotPass", "InvalidAmount", "Ok"}

\* C10: the voting phase and the release phase of a proposal never overlap:
\* Vote succeeds only when now <= voting_end and Release gets past its time
\* check only when now > voting_end; the clock never goes back and voting_end
\* never changes, so once a Release has got past the time check yes_votes and
\* no_votes never change again.
C10_VotingAndReleaseDisjoint ==
    /\ [](\A p \in DOMAIN proposals :
             /\ VoteCanSucceed(p) => now <= proposals[p].voting_end
             /\ ReleasePastTimeCheck(p) => now > proposals[p].voting_end
             /\ ~(VoteCanSucceed(p) /\ ReleasePastTimeCheck(p)))
    /\ [][/\ now' >= now
          /\ \A p \in DOMAIN proposals :
                /\ p \in DOMAIN proposals'
                /\ proposals'[p].voting_end = proposals[p].voting_end
                /\ now > proposals[p].voting_end =>
                       /\ proposals'[p].yes_votes = proposals[p].yes_votes
                       /\ proposals'[p].no_votes = proposals[p].no_votes]_vars

\* a voted proposal after its window: Release gets past the time check and Vote
\* is refused with VotingPeriodEnded
C10_Witness ==
    \E p \in DOMAIN proposals :
        /\ proposals[p].yes_votes + proposals[p].no_votes > 0
        /\ ReleasePastTimeCheck(p)
        /\ ~VoteCanSucceed(p)
        /\ VoteBy(Cur, <<"alice", TRUE>>, p, TRUE).err = "VotingPeriodEnded"

(***************************************************************************)
(* Properties of the ledger: Contribute, Buy and Sell.                     *)
(***************************************************************************)
\* the accounts after user u paid amount for credits at the price stored in s
Traded(s, u, amount) ==
    LET total == s.project.total_raised + amount
    IN  [s EXCEPT !.tokens[u] = @ + amount \div s.project.token_price,
                  !.lamports = [@ EXCEPT ![u] = @ - amount, ![Treasury] = @ + amount],
                  !.project = [@ EXCEPT !.total_raised = total,
                                        !.token_price =
                                            calculate_new_price(total, s.project.funding_goal),
                                        !.is_active = ~(total >= s.project.funding_goal)]]

\* C11: a successful Contribute or Buy of amount on an active project mints
\* floor(amount / token_price) credits at the price stored before the
\* operation, moves amount into the treasury, adds amount to total_raised,
\* recomputes token_price from the new total_raised and sets is_active = false
\* iff the new total_raised >= funding_goal.
C11_ContributeAndBuyEffects ==
    Initialized =>
        \A c \in Signers, amount \in Amounts :
            \A r \in {process_contribute(Cur, c[1], c[2], amount),
                       process_buy_tokens(Cur, c[1], c[2], amount)} :
                r.err = "Ok" =>
                    /\ project.is_active
                    /\ r.fx = <<"transfer", "mint_to", "write_project">>
                    /\ r.s = Traded(Cur, c[1], amount)

\* scenario A: 100 credits bought at price 1 and floor(900 / 11) = 81 at price 11
\* brought the project to its goal of 1000 and deactivated it
C11_Witness ==
    /\ Initialized
    /\ project.total_raised = 1000
    /\ project.token_price = 101
    /\ ~project.is_active
    /\ lamports[Treasury] = RentExempt + 1000
    /\ \E u \in Users : tokens[u] = 181

\* C12 as stated: Contribute on a project whose total_raised is at or above
\* funding_goal fails with FundingGoalReached, deactivated or not.  Violated:
\* a deactivated project answers ProjectNotActive first.
C12_ContributeAtGoalFailsGoalReached ==
    Initialized /\ project.total_raised >= project.funding_goal =>
        \A c \in Signers, amount \in Amounts :
            process_contribute(Cur, c[1], c[2], amount).err = "FundingGoalReached"

\* C12 amended: Contribute on a project whose total_raised is at or above
\* funding_goal fails before any transfer or mint is requested, with
\* ProjectNotActive when the project is deactivated and with FundingGoalReached
\* when it is still active.
C12_ContributeAtGoalFailsEagerly ==
    Initialized /\ project.total_raised >= project.funding_goal =>
        \A c \in Signers, amount \in Amounts :
            LET r == process_contribute(Cur, c[1], c[2], amount)
            IN  /\ r.err = IF project.is_active THEN "FundingGoalReached"
                                                ELSE "ProjectNotActive"
                /\ r.fx = <<>>
                /\ r.s = Cur

\* an active project at its goal, where Contribute answers FundingGoalReached
C12_Witness ==
    /\ Initialized
    /\ project.is_active
    /\ project.total_raised >= project.funding_goal
    /\ process_contribute(Cur, "alice", TRUE, 100).err = "FundingGoalReached"

SignedSells == Signers \X TokenAccounts \X Mints \X SellAmounts

SellOf(q) == process_sell_tokens(Cur, q[1][1], q[1][2], q[2], q[3], q[4])

\* Contribute, Buy and Sell are refused with ProjectNotActive and touch nothing
RefusedAsInactive ==
    /\ \A c \in Signers, amount \in Amounts :
          \A r \in {process_contribute(Cur, c[1], c[2], amount),
                     process_buy_tokens(Cur, c[1], c[2], amount)} :
              r.err = "ProjectNotActive" /\ r.fx = <<>> /\ r.s = Cur
    /\ \A q \in SignedSells :
          SellOf(q).err = "ProjectNotActive" /\ SellOf(q).fx = <<>> /\ SellOf(q).s = Cur

\* C14 as stated: on a project with is_active = false Contribute, Buy and Sell
\* fail with ProjectNotActive, request nothing and change nothing; in
\* particular no Sell succeeds once total_raised has reached funding_goal.
\* Violated with funding_goal = 0: the project is active after Initialize and a
\* Sell of 0 credits succeeds.
C14_NoSellAtGoal ==
    Initialized =>
        /\ ~project.is_active => RefusedAsInactive
        /\ project.total_raised >= project.funding_goal =>
               \A q \in SignedSells : SellOf(q).err # "Ok"

\* C14 amended: on a project with is_active = false Contribute, Buy and Sell
\* fail with ProjectNotActive, request nothing and change nothing; in
\* particular no Sell succeeds once a funding goal > 0 has been reached.
C14_InactiveProjectRefusesTrades ==
    Initialized =>
        /\ ~project.is_active => RefusedAsInactive
        /\ project.funding_goal > 0 /\ project.total_raised >= project.funding_goal =>
               \A q \in SignedSells : SellOf(q).err = "ProjectNotActive"

\* a deactivated project whose treasury could pay the refund of 10 credits to
\* a holder of 10 credits, and whose Sell is refused
C14_Witness ==
    /\ Initialized
    /\ ~project.is_active
    /\ \E u \in Users :
          /\ tokens[u] >= 10
          /\ lamports[Treasury] >= 10 * project.token_price
          /\ SellOf(<<<<u, TRUE>>, OwnAccount(u), "token_mint", 10>>).err = "ProjectNotActive"

\* the accounts after user u sold amount credits at the price stored in s
Sold(s, u, amount) ==
    LET refund == amount * s.project.token_price
        total == s.project.total_raised - refund
    IN  [s EXCEPT !.tokens[u] = @ - amount,
                  !.lamports = [@ EXCEPT ![Treasury] = @ - refund, ![u] = @ + refund],
                  !.project = [@ EXCEPT !.total_raised = total,
                                        !.token_price =
                                            calculate_new_price(total, s.project.funding_goal),
                                        !.is_active =
                                            IF total >= s.project.funding_goal THEN FALSE ELSE @]]

\* C15: a successful Sell of amount credits burns exactly amount credits of the
\* caller, then moves refund = amount * token_price, at the price stored before
\* the operation, from the treasury to the caller, subtracts refund from
\* total_raised, recomputes token_price from the new total_raised and
\* re-applies the deactivation check; the burn is requested before the value
\* transfer.
C15_SellEffects ==
    Initialized =>
        \A q \in SignedSells :
            SellOf(q).err = "Ok" =>
                /\ q[2] = OwnAccount(q[1][1]) /\ q[3] = project.token_mint
                /\ SellOf(q).fx = <<"burn", "lamports", "write_project">>
                /\ SellOf(q).s = Sold(Cur, q[1][1], q[4])

\* 100 credits bought at price 1, then one of them sold at price 11
C15_Witness ==
    /\ Initialized
    /\ project.total_raised = 89
    /\ project.token_price = 9
    /\ lamports[Treasury] = RentExempt + 89
    /\ \E u \in Users : tokens[u] = 99 /\ lamports[u] = StartLamports - 89

\* C16: a Sell fails with InvalidAmount, changing no state, when the caller's
\* credit balance is below amount, when the supplied credit account is not of
\* the project's token_mint, when it is not owned by the caller, or when the
\* treasury balance is below the refund.
C16_SellRefusalsAreInvalidAmount ==
    Initialized /\ project.is_active =>
        \A q \in SignedSells :
            LET refund == q[4] * project.token_price
            IN  /\ q[3] = project.token_mint
                /\ \/ TokenAmount(Cur, q[2]) < q[4]
                   \/ q[2].mint # project.token_mint
                   \/ q[2].owner # q[1][1]
                   \/ lamports[Treasury] < refund
                => SellOf(q) = Ret("InvalidAmount", <<>>, Cur)

\* a Sell that passes every check made before the burn
SellPastChecks(q) ==
    /\ project.is_active
    /\ q[3] = project.token_mint
    /\ q[2] = OwnAccount(q[1][1])
    /\ tokens[q[1][1]] >= q[4]
    /\ q[4] * project.token_price <= U64_MAX
    /\ lamports[Treasury] >= q[4] * project.token_price

\* C17: a Sell whose refund exceeds total_raised fails with Overflow after the
\* handler has burned the credits and moved the refund; the failed operation
\* is discarded as a whole, so total_raised, token_price, is_active, the
\* treasury balance and every credit balance are exactly as before.
C17_SellBeyondTotalRaisedIsDiscarded ==
    Initialized =>
        /\ project.total_raised >= 0
        /\ \A q \in SignedSells :
              SellPastChecks(q) /\ q[4] * project.token_price > project.total_raised =>
                  /\ SellOf(q).err = "Overflow"
                  /\ SellOf(q).fx = <<"burn", "lamports">>
                  /\ SellOf(q).s.tokens[q[1][1]] = tokens[q[1][1]] - q[4]
                  /\ SellOf(q).s.lamports[Treasury] =
                         lamports[Treasury] - q[4] * project.token_price
                  /\ Committed(SellOf(q)) = Cur

\* 100 credits bought at price 1; selling 10 of them at price 11 would refund 110
C17_Witness ==
    /\ Initialized
    /\ \E q \in SignedSells :
          /\ SellPastChecks(q)
          /\ q[4] * project.token_price > project.total_raised
          /\ q[4] > 0
          /\ SellOf(q).err = "Overflow"

\* C18: no arithmetic on a stored quantity wraps or silently substitutes a
\* value: an operation in which total_raised + amount or total_raised * 100
\* exceeds the representable range fails with Overflow, so a Contribute or a
\* Buy succeeds only if both stay within the range.
C18_OverflowNeverSubstituted ==
    Initialized =>
        \A c \in Signers, amount \in Amounts :
            \A r \in {process_contribute(Cur, c[1], c[2], amount),
                       process_buy_tokens(Cur, c[1], c[2], amount)} :
                LET total == project.total_raised + amount
                IN  r.err = "Ok" => total <= U64_MAX /\ total * 100 <= U64_MAX

\* C19: the price function is monotone non-decreasing in totalRaised and never
\* below 1: for every funding goal g and all representable t1 <= t2,
\* 1 <= calculate_new_price(t1, g) <= calculate_new_price(t2, g).
C19_PriceMonotone ==
    args.fn = "calculate_new_price" /\ result # Pending =>
        1 <= result[1] /\ result[1] <= result[2]

\* C20: calculate_tokens(amount, price) is floor(amount / price) when
\* price > 0 and 0 when price = 0; the credits times the price never exceed
\* the amount paid, and an amount below the price yields no credits.
C20_TokensAreFloorQuotient ==
    args.fn = "calculate_tokens" /\ result # Pending =>
        /\ result[1] = IF args.price > 0 THEN args.amount \div args.price ELSE 0
        /\ result[1] * args.price <= args.amount
        /\ args.amount < args.price => result[1] = 0

\* 7 paid at price 2 or 3: credits are minted and a remainder is left over
C20_Witness ==
    /\ args.fn = "calculate_tokens"
    /\ result # Pending
    /\ args.price > 1
    /\ result[1] > 0
    /\ result[1] * args.price < args.amount

\* the record process_initialize_project writes for funding_goal g
FreshProject(g) ==
    [authority |-> Authority, funding_goal |-> g, total_raised |-> 0, token_price |-> 1,
     is_active |-> TRUE, token_mint |-> "token_mint", milestone_count |-> 0,
     proposal_count |-> 0]

\* C21: Initialize on an empty project slot creates a Project with
\* total_raised = 0, token_price = 1, is_active = true, milestone_count = 0 and
\* proposal_count = 0; Initialize on a slot that already holds a project fails,
\* with InvalidProjectAccount when the caller signed, and leaves the project
\* record and everything else unchanged, so no reachable project is ever
\* re-initialized.
C21_InitializeOnce ==
    \A c \in Callers, g \in FundingGoals :
        LET r == process_initialize_project(Cur, c[1], c[2], g)
        IN  IF Initialized
            THEN /\ r.err # "Ok"
                 /\ c[2] => r.err = "InvalidProjectAccount"
                 /\ r.fx = <<>>
                 /\ Committed(r) = Cur
            ELSE /\ r.err = "Ok" <=> c[2] /\ c[1] = Authority
                 /\ r.err = "Ok" => r.s.project = FreshProject(g)

\* a project that has traded, holds a milestone with a proposal, and on which
\* the authority's signed Initialize is refused
C21_Witness ==
    /\ Initialized
    /\ project.total_raised > 0
    /\ project.proposal_count > 0
    /\ process_initialize_project(Cur, Authority, TRUE, 1000).err = "InvalidProjectAccount"

\* callers that are not the signing authority of the project
Unauthorized == {c \in Users \X BOOLEAN : ~c[2] \/ c[1] # project.authority}

\* the four authority-only instructions as submitted by caller c on milestone m
\* and proposal p
AuthorityOnly(c, m, p) ==
    {process_add_milestone(Cur, m, c[1], c[2], 500, TRUE),
     process_create_proposal(Cur, now, p, c[1], c[2], m, m, TRUE),
     process_release_funds(Cur, now, p, c[1], c[2], m, p),
     process_complete_milestone(Cur, now, m, c[1], c[2], m)}

\* C22: AddMilestone, CreateProposal, Release and CompleteMilestone succeed only
\* when the caller is project.authority and has signed; called by any other
\* identity, or by the authority's key without a signature, each fails with
\* InvalidAuthority and leaves the project, every milestone, every proposal and
\* the treasury unchanged.
C22_AuthorityOnly ==
    Initialized =>
        \A c \in Unauthorized, m \in MilestoneIds, p \in MilestoneIds :
            \A r \in AuthorityOnly(c, m, p) : r = Ret("InvalidAuthority", <<>>, Cur)

\* a passed proposal the authority can release while alice, signing, and the
\* authority's key, unsigned, are refused
C22_Witness ==
    /\ Initialized
    /\ \E p \in DOMAIN proposals :
          /\ ReleaseBy(<<Authority, TRUE>>, p).err = "Ok"
          /\ ReleaseBy(<<Authority, FALSE>>, p).err = "InvalidAuthority"
          /\ ReleaseBy(<<"alice", TRUE>>, p).err = "InvalidAuthority"

\* AddMilestone as the signing authority submits it for milestone account i
AddBy(i, amount, oc) == process_add_milestone(Cur, i, Authority, TRUE, amount, oc)

\* C23: a successful AddMilestone stores the new Milestone at the index equal to
\* milestone_count before the call, with the given amount, is_completed = false
\* and has_proposal = false, and then increases milestone_count by exactly 1; it
\* fails with AccountAlreadyInitialized, changing nothing, when the slot of that
\* index is not empty.
C23_AddMilestoneAppends ==
    \A i \in LateIds, amount \in MilestoneAmounts :
        \A oc \in Builds(project.milestone_count = U8_MAX) :
            LET r == AddBy(i, amount, oc)
            IN  /\ r.err = "Ok" =>
                    /\ i = project.milestone_count
                    /\ r.s.milestones[i] = [amount |-> amount, is_completed |-> FALSE,
                                            completed_at |-> 0, has_proposal |-> FALSE]
                    /\ r.s.project.milestone_count = project.milestone_count + 1
                /\ i = project.milestone_count /\ i \in DOMAIN milestones =>
                    r = Ret("AccountAlreadyInitialized", <<>>, Cur)

\* C24: milestone_count and proposal_count never decrease, also across the
\* 256th AddMilestone and CreateProposal, and the project never holds more than
\* 256 milestones or 256 proposals.
C24_CountersNeverDecrease ==
    /\ [](/\ Cardinality(DOMAIN milestones) <= U8_MAX + 1
          /\ Cardinality(DOMAIN proposals) <= U8_MAX + 1)
    /\ [][/\ project'.milestone_count >= project.milestone_count
          /\ project'.proposal_count >= project.proposal_count]_vars

\* CreateProposal as the signing authority submits it for proposal account p on
\* milestone m
CreateBy(p, m, oc) == process_create_proposal(Cur, now, p, Authority, TRUE, m, m, oc)

\* C25: a successful CreateProposal on milestone m stores the new Proposal at
\* the index equal to proposal_count before the call, with milestone_id = m,
\* creator = the authority, yes_votes = no_votes = 0, is_executed = false,
\* created_at = now and voting_end = created_at + W for the one fixed window W;
\* it then increments proposal_count by 1 and sets has_proposal of milestone m.
C25_CreateProposalAppends ==
    \A p \in LateIds, m \in LateIds :
        \A oc \in Builds(project.proposal_count = U8_MAX) :
            LET r == CreateBy(p, m, oc)
            IN  r.err = "Ok" =>
                    /\ p = project.proposal_count
                    /\ r.s.proposals[p] =
                          [creator |-> project.authority, milestone_id |-> m,
                           yes_votes |-> 0, no_votes |-> 0, is_executed |-> FALSE,
                           created_at |-> now, voting_end |-> now + VOTING_WINDOW]
                    /\ r.s.project.proposal_count = project.proposal_count + 1
                    /\ r.s.milestones[m].has_proposal

\* CompleteMilestone as the signing authority submits it for milestone m
CompleteBy(m) == process_complete_milestone(Cur, now, m, Authority, TRUE, m)

\* C26: CompleteMilestone by the authority on a milestone with
\* is_completed = false sets is_completed = true and completed_at = now, needing
\* no proposal and no vote; on a milestone already completed, by
\* CompleteMilestone or by a successful Release, it fails with
\* MilestoneAlreadyCompleted and leaves completed_at unchanged.  is_completed
\* never returns to false.
C26_CompleteOnce ==
    /\ [](\A m \in DOMAIN milestones :
             IF milestones[m].is_completed
             THEN CompleteBy(m) = Ret("MilestoneAlreadyCompleted", <<>>, Cur)
             ELSE /\ CompleteBy(m).err = "Ok"
                  /\ CompleteBy(m).s =
                        [Cur EXCEPT !.milestones[m].is_completed = TRUE,
                                    !.milestones[m].completed_at = now])
    /\ [][\A m \in DOMAIN milestones :
             milestones[m].is_completed =>
                 /\ milestones'[m].is_completed
                 /\ milestones'[m].completed_at = milestones[m].completed_at]_vars

\* a milestone completed directly, with no proposal on it, at a time after 0,
\* on which a second CompleteMilestone is refused
C26_Witness ==
    \E m \in DOMAIN milestones :
        /\ milestones[m].is_completed
        /\ ~milestones[m].has_proposal
        /\ milestones[m].completed_at > 0
        /\ now > milestones[m].completed_at
        /\ CompleteBy(m).err = "MilestoneAlreadyCompleted"

\* C30: Release changes only the treasury balance, the authority's balance,
\* proposal.is_executed and milestone.is_completed: it leaves total_raised,
\* token_price, is_active, milestone_count and proposal_count of the project,
\* the vote counters and voting_end of the proposal, and the amount,
\* has_proposal and completed_at of the milestone unchanged.
C30_ReleaseFrame ==
    \A p \in DOMAIN proposals :
        LET r == ReleaseBy(<<Authority, TRUE>>, p)
            m == proposals[p].milestone_id
        IN  r.err = "Ok" =>
                /\ r.s.project = project
                /\ r.s.tokens = tokens
                /\ \A a \in DOMAIN lamports \ {Treasury, project.authority} :
                      r.s.lamports[a] = lamports[a]
                /\ r.s.proposals = [proposals EXCEPT ![p].is_executed = r.s.proposals[p].is_executed]
                /\ r.s.milestones = [milestones EXCEPT ![m].is_completed = r.s.milestones[m].is_completed]
                /\ r.s.milestones[m].completed_at = milestones[m].completed_at

\* a released milestone: the proposal is executed, the milestone is completed
\* with completed_at still 0 after the voting window, and the project record
\* still shows the total raised although the treasury has paid the amount out
C30_Witness ==
    /\ Initialized
    /\ \E p \in DOMAIN proposals :
          LET m == proposals[p].milestone_id
          IN  /\ proposals[p].is_executed
              /\ milestones[m].is_completed
              /\ milestones[m].completed_at = 0
              /\ now > proposals[p].voting_end
              /\ project.total_raised >= milestones[m].amount
              /\ lamports[Treasury] = RentExempt + project.total_raised - milestones[m].amount

\* the host discards what a failed handler wrote
Discarded(r) == r.err # "Ok" => Committed(r) = Cur

\* amounts a caller can pay and one no caller can
AnyAmounts == Amounts \cup {U64_MAX}

Declared(rest, offset) ==
    IF Len(rest) >= offset + 4 THEN from_le_bytes(slice(rest, offset, 4)) ELSE 0

\* the number of payload bytes the instruction with this tag is made of
PayloadLength(tag, rest) ==
    CASE tag = 0 -> 8 + Declared(rest, 0) + Declared(rest, 4) + 8
      [] tag \in {1, 2, 3, 6} -> 8
      [] tag = 4 -> 8 + Declared(rest, 0) + Declared(rest, 4) + 1
      [] tag = 5 -> 9
      [] tag = 7 -> 32 + Declared(rest, 0) + Declared(rest, 4) + 8
      [] tag = 8 -> 1

Malformed(input) ==
    \/ input = <<>>
    \/ Head(input) \notin 0..8
    \/ Len(Tail(input)) < PayloadLength(Head(input), Tail(input))

\* C28: instruction data that is empty, carries a tag outside 0..8, or is
\* shorter than the payload its tag requires (declared string lengths that
\* exceed the remaining bytes included) fails with InvalidInstructionData, and
\* no account record or balance is changed.
C28_MalformedDataRejected ==
    args.fn = "Instruction::unpack" /\ result # Pending =>
        /\ Malformed(args.input) => result[1] = Failure("InvalidInstructionData")
        /\ project = NoAccount /\ milestones = NoAccounts /\ proposals = NoAccounts
        /\ \A u \in Users : lamports[u] = StartLamports /\ tokens[u] = 0

\* an InitializeProject whose header declares more string bytes than follow
C28_Witness ==
    /\ args.fn = "Instruction::unpack"
    /\ result = <<Failure("InvalidInstructionData")>>
    /\ Len(args.input) > 17
    /\ Head(args.input) = 0
    /\ Declared(Tail(args.input), 0) > Len(args.input)

\* string `got` is string `put` without some or all of its trailing NUL bytes
SameUpToPadding(put, got) ==
    \E k \in 0..Len(put) :
        /\ got = SubSeq(put, 1, k)
        /\ \A i \in (k + 1)..Len(put) : put[i] = 0

\* record `got` equals record `put` field for field, the strings up to padding
RoundTrip(put, got, strings) ==
    /\ DOMAIN got = DOMAIN put
    /\ \A f \in DOMAIN put :
          IF f \in strings THEN SameUpToPadding(put[f], got[f]) ELSE got[f] = put[f]

\* C29: for every Project, Proposal and Milestone whose strings are within the
\* declared byte limits (name and title 32, symbol 8, description 256),
\* unpack(pack(r)) succeeds and equals r field for field, up to trailing NUL
\* padding of the strings.
C29_RecordsRoundTrip ==
    result # Pending =>
        /\ args.fn = "Project" => RoundTrip(args.record, result[1], {"name", "symbol"})
        /\ args.fn \in {"Proposal", "Milestone"} =>
              RoundTrip(args.record, result[1], {"title", "description"})

\* a Project whose name fills its 32 bytes and whose symbol ends in a NUL
C29_Witness ==
    /\ args.fn = "Project"
    /\ result # Pending
    /\ Len(args.record.name) = 32
    /\ args.record.symbol = <<85, 0>>
    /\ result[1].symbol = <<85>>
    /\ result[1].name = args.record.name
    /\ result[1].total_raised = U64_MAX

(***************************************************************************)
(* Properties of the error paths, the account addresses and the payouts.   *)
(***************************************************************************)
\* the errors that report the state of the project, a proposal or a milestone
DomainErrors ==
    {"ProjectNotActive", "FundingGoalReached", "InvalidAmount", "ProposalAlreadyExecuted",
     "VotingPeriodEnded", "VotingPeriodNotEnded", "ProposalDidNotPass",
     "MilestoneAlreadyCompleted", "MilestoneAlreadyHasProposal"}

\* a handler that returned a domain-state error had requested and written nothing
RaisedBeforeMutation(r) == r.err \in DomainErrors => r.fx = <<>> /\ r.s = Cur

\* C31: every domain-state error (ProjectNotActive, FundingGoalReached,
\* InvalidAmount, ProposalAlreadyExecuted, VotingPeriodEnded,
\* VotingPeriodNotEnded, ProposalDidNotPass, MilestoneAlreadyCompleted,
\* MilestoneAlreadyHasProposal) is returned before the handler has written a
\* record, changed a balance or requested a transfer, mint, burn or account
\* creation, so the accounts are unchanged even without the host's rollback.
C31_DomainErrorsBeforeMutation ==
    /\ \A c \in Signers, a \in Amounts :
          /\ RaisedBeforeMutation(process_contribute(Cur, c[1], c[2], a))
          /\ RaisedBeforeMutation(process_buy_tokens(Cur, c[1], c[2], a))
    /\ \A q \in SellRequests : q[1][2] => RaisedBeforeMutation(SellOf(q))
    /\ \A m \in MilestoneIds, i \in MilestoneIds :
          /\ RaisedBeforeMutation(process_create_proposal(Cur, now, i, Authority, TRUE, m, m, TRUE))
          /\ RaisedBeforeMutation(process_complete_milestone(Cur, now, m, Authority, TRUE, m))
    \* a proposal account other than the derived one is refused by the address
    \* comparison before the proposal is read
    /\ \A c \in Signers, id \in ProposalIds, v \in BOOLEAN :
          RaisedBeforeMutation(process_vote(Cur, now, as_u8(id), c[1], c[2], id, v, TRUE))
    /\ \A id \in ProposalIds, m \in MilestoneIds :
          RaisedBeforeMutation(process_release_funds(Cur, now, as_u8(id), Authority, TRUE, m, id))

\* after a release the treasury cannot refund 10 credits of a holder: the Sell is
\* refused with InvalidAmount, a second Release with ProposalAlreadyExecuted, a
\* Vote with ProposalAlreadyExecuted, CompleteMilestone with
\* MilestoneAlreadyCompleted and CreateProposal with MilestoneAlreadyHasProposal
C31_Witness ==
    /\ Initialized
    /\ project.is_active
    /\ \E u \in Users :
          /\ tokens[u] >= 10
          /\ lamports[Treasury] < 10 * project.token_price
          /\ SellOf(<<<<u, TRUE>>, OwnAccount(u), "token_mint", 10>>).err = "InvalidAmount"
    /\ \E p \in DOMAIN proposals :
          LET m == proposals[p].milestone_id
          IN  /\ ReleaseBy(<<Authority, TRUE>>, p).err = "ProposalAlreadyExecuted"
              /\ VoteBy(Cur, <<"alice", TRUE>>, p, TRUE).err = "ProposalAlreadyExecuted"
              /\ CompleteBy(m).err = "MilestoneAlreadyCompleted"
              /\ CreateBy(project.proposal_count, m, TRUE).err = "MilestoneAlreadyHasProposal"

\* C32: Milestone and Proposal records occupy exactly the index ranges
\* 0..milestone_count-1 and 0..proposal_count-1: a Milestone (Proposal) record
\* exists at index i if and only if i < milestone_count (i < proposal_count),
\* and every Proposal's milestone_id is the index of an existing Milestone.
\* Violated: the 256th AddMilestone wraps milestone_count to 0 while 256
\* milestone records exist.
C32_RecordsFillIndexRanges ==
    Initialized =>
        /\ DOMAIN milestones = {i \in 0..U8_MAX : i < project.milestone_count}
        /\ DOMAIN proposals = {i \in 0..U8_MAX : i < project.proposal_count}
        /\ \A p \in DOMAIN proposals : proposals[p].milestone_id \in DOMAIN milestones

\* the AddMilestone payload of the interface table: tag 7, u32 titleLen,
\* u32 descLen, the title, the description, u64 amount
AddMilestoneData(title, description, amount) ==
    <<7>> \o to_le_bytes(Len(title), 4) \o to_le_bytes(Len(description), 4)
          \o title \o description \o to_le_bytes(amount, 8)

\* C34: decoding an AddMilestone payload laid out as the interface table states
\* (tag 7, u32 titleLen, u32 descLen, the title bytes, the description bytes,
\* u64 amount, with nothing in between) yields exactly that title, description
\* and amount.  Violated: the decoder looks for the title 32 bytes into the
\* payload and rejects the table's layout.
C34_AddMilestoneDecodesTable ==
    args.fn = "Instruction::unpack" /\ result # Pending =>
        \A title \in {<<>>, <<65, 66>>}, description \in {<<68>>}, amount \in {500} :
            args.input = AddMilestoneData(title, description, amount) =>
                result[1] = [instruction |-> "AddMilestone", first |-> title,
                             second |-> description, value |-> amount]

\* C35: Vote and Release act only on the proposal whose index equals the given
\* proposal_id: for every 64-bit proposal_id greater than or equal to
\* proposal_count (every proposal_id >= 256 in particular), whatever proposal
\* and milestone accounts the caller supplies, Vote and Release fail and change
\* no proposal, milestone or balance.  Violated: the address is derived from
\* `proposal_id as u8`, so proposal_id = 256 names proposal 0.
C35_ProposalIdBeyondCountRefused ==
    Initialized =>
        \A id \in ProposalIds :
            id >= project.proposal_count =>
                /\ \A c \in Signers, p \in MilestoneIds, v \in BOOLEAN :
                      LET r == process_vote(Cur, now, p, c[1], c[2], id, v, TRUE)
                      IN  r.err # "Ok" /\ Committed(r) = Cur
                /\ \A p \in MilestoneIds, m \in MilestoneIds :
                      LET r == process_release_funds(Cur, now, p, Authority, TRUE, m, id)
                      IN  r.err # "Ok" /\ Committed(r) = Cur

\* milestone m was completed by CompleteMilestone: it is completed while the
\* proposal on it, if any, is not executed (a Release sets both flags at once)
CompletedDirectly(m) ==
    /\ milestones[m].is_completed
    /\ \A p \in ProposalsOn(m) : ~proposals[p].is_executed

\* C39: the two completion paths exclude each other on the payout: once a
\* milestone has been marked completed by CompleteMilestone, no later Release
\* succeeds for a proposal bound to that milestone, so the treasury never pays
\* for a milestone that was already completed.  Violated: process_release_funds
\* never reads is_completed.
C39_NoReleaseAfterDirectCompletion ==
    \A p \in DOMAIN proposals :
        CompletedDirectly(proposals[p].milestone_id) =>
            /\ ReleaseBy(<<Authority, TRUE>>, p).err # "Ok"
            /\ ReleaseBy(<<Authority, TRUE>>, p).s.lamports = lamports

\* C40: in every reachable state proposal_count equals the number of milestones
\* whose has_proposal is true (hence proposal_count <= milestone_count),
\* distinct proposals have distinct milestone_id, and every executed proposal
\* is bound to a completed milestone.  Violated: the 256th CreateProposal wraps
\* proposal_count to 0 while 256 milestones have a proposal.
C40_ProposalCountIsMilestonesWithProposal ==
    Initialized =>
        /\ project.proposal_count =
               Cardinality({m \in DOMAIN milestones : milestones[m].has_proposal})
        /\ project.proposal_count <= project.milestone_count
        /\ \A p \in DOMAIN proposals, q \in DOMAIN proposals :
               p # q => proposals[p].milestone_id # proposals[q].milestone_id
        /\ \A p \in DOMAIN proposals :
               proposals[p].is_executed => milestones[proposals[p].milestone_id].is_completed

RECURSIVE ReleasedOn(_, _)
ReleasedOn(h, ids) ==
    IF ids = {} THEN 0
    ELSE LET m == CHOOSE i \in ids : TRUE
         IN  h.released[m] + ReleasedOn(h, ids \ {m})

ReleasedTotal == ReleasedOn(history, DOMAIN history.released)

\* C37: value conservation of the treasury: in every reachable state in which
\* no Release has succeeded, the treasury balance minus its balance right after
\* Initialize equals total_raised; in general it equals total_raised minus the
\* sum of all amounts released, and neither a Sell nor a Release drives the
\* treasury balance below zero, not even one that fails later.
C37_TreasuryConservation ==
    Initialized =>
        /\ lamports[Treasury] - RentExempt = project.total_raised - ReleasedTotal
        /\ DOMAIN history.released = {} =>
               lamports[Treasury] - RentExempt = project.total_raised
        /\ lamports[Treasury] >= 0
        /\ \A q \in SellRequests : q[1][2] => SellOf(q).s.lamports[Treasury] >= 0
        /\ \A p \in DOMAIN proposals :
               ReleaseBy(<<Authority, TRUE>>, p).s.lamports[Treasury] >= 0

\* credits were bought and sold and a milestone was released: the treasury holds
\* less than total_raised, and a Sell of credits the seller holds is refused
\* because the treasury cannot pay it
C37_Witness ==
    /\ Initialized
    /\ ReleasedTotal > 0
    /\ \E u \in Users : history.paid[u] > 0 /\ history.refunded[u] > 0
    /\ lamports[Treasury] - RentExempt < project.total_raised
    /\ \E q \in SignedSells :
          /\ tokens[q[1][1]] >= q[4]
          /\ q[4] * project.token_price > lamports[Treasury]
          /\ SellOf(q).err = "InvalidAmount"

\* C38: no supporter profits from the curve at the expense of others: for every
\* account and every sequence of Contribute, Buy and Sell operations by any
\* number of accounts, the total value refunded to that account by its
\* successful Sells never exceeds the total value it paid in through
\* Contribute and Buy.  Violated: a Sell is paid at the current price, which
\* later contributions of others have raised.
C38_NoProfitFromCurve ==
    \A u \in Users : history.refunded[u] <= history.paid[u]

(***************************************************************************)
(* The project account a caller supplies.  Outside Initialize no handler   *)
(* compares project_account.key with an address it derives: it unpacks the *)
(* data of whatever account stands in the project slot, and derives the    *)
(* milestone and proposal addresses from that account's key.               *)
(***************************************************************************)
\* Pubkey::default(), the key of 32 zero bytes, for which nobody can sign
ZeroKey == "11111111111111111111111111111111"

\* an account of Project::LEN zero bytes: what the system program's
\* create_account leaves behind, whichever owner it was assigned to
BlankAccount == "blank_account"

ProjectAccounts == {Treasury, BlankAccount}

\* Project::unpack on Project::LEN zero bytes
BlankProject ==
    LET p == Project_unpack(Zeros(133))
    IN  [authority |-> ZeroKey,
         funding_goal |-> p.funding_goal,
         total_raised |-> p.total_raised,
         token_price |-> p.token_price,
         is_active |-> p.is_active,
         token_mint |-> ZeroKey,
         milestone_count |-> p.milestone_count,
         proposal_count |-> p.proposal_count]

\* the accounts as a handler sees them when project_account is the account
\* supplied: its data, its lamports, and the milestone and proposal accounts at
\* the addresses derived from its key (none exists for the blank account)
Supplied(s, project_account) ==
    IF project_account = Treasury THEN s
    ELSE [s EXCEPT !.project = BlankProject,
                   !.lamports[Treasury] = RentExempt,
                   !.milestones = NoAccounts,
                   !.proposals = NoAccounts]

\* the errors of an address comparison: InvalidProjectAccount in Initialize,
\* ProgramError::IncorrectProgramId for the milestone and proposal addresses
AddressErrors == {"InvalidProjectAccount", "IncorrectProgramId"}

\* what each handler returns to a signing user (the authority, for the
\* authority-only instructions) who puts project_account in the project slot
OnProjectAccount(project_account) ==
    LET s == Supplied(Cur, project_account)
    IN  {process_contribute(s, u, TRUE, amount) : u \in Users, amount \in Amounts}
        \cup {process_buy_tokens(s, u, TRUE, amount) : u \in Users, amount \in Amounts}
        \cup {process_sell_tokens(s, q[1][1], TRUE, q[2], q[3], q[4]) : q \in SignedSells}
        \cup {process_vote(s, now, as_u8(id), u, TRUE, id, TRUE, TRUE) :
                  u \in Users, id \in ProposalIds}
        \cup {process_add_milestone(s, s.project.milestone_count, Authority, TRUE, amount, TRUE) :
                  amount \in MilestoneAmounts}
        \cup {process_create_proposal(s, now, s.project.proposal_count, Authority, TRUE, m, m, TRUE) :
                  m \in MilestoneIds}
        \cup {process_release_funds(s, now, as_u8(id), Authority, TRUE, m, id) :
                  id \in ProposalIds, m \in MilestoneIds}
        \cup {process_complete_milestone(s, now, m, Authority, TRUE, m) : m \in MilestoneIds}

\* C33: every instruction that reads or writes a Project, Milestone or Proposal
\* record first verifies that the supplied account's address equals the
\* derivation from its seed tuple and fails with an incorrect-address error
\* otherwise: a call whose project account is not the derived one returns such
\* an error with nothing done, and so does a call naming a milestone or proposal
\* account other than the derived one.  Violated: the project account's address
\* is compared only in Initialize, so on a blank account the handlers answer
\* ProjectNotActive or InvalidAuthority, and CreateProposal and Release unpack
\* the milestone account before they compare its address.
C33_AddressesVerifiedFirst ==
    Initialized =>
        /\ \A r \in OnProjectAccount(BlankAccount) :
               r.err \in AddressErrors /\ r.fx = <<>>
        /\ \A m \in MilestoneIds, id \in MilestoneIds : m # id =>
               LET r == process_create_proposal(Cur, now, project.proposal_count,
                                                Authority, TRUE, m, id, TRUE)
               IN  r.err \in AddressErrors /\ r.fx = <<>>

====
